---- MODULE Spec2Model ----
(***************************************************************************)
(* Recurring remittance schedules (src/recurring_remittance/src/lib.rs).   *)
(*                                                                         *)
(* The contract keeps two entries in instance storage: SCHEDULES, a map    *)
(* from schedule id to RemittanceSchedule, and NEXT_ID, the last id that   *)
(* was handed out.  Every entry point is one host invocation: it runs to   *)
(* completion against the storage, and a panic rolls back everything it    *)
(* wrote.  Each entry point is modelled as an operator from the storage    *)
(* and the ledger time to the new storage and the result, and as an action *)
(* that commits what the operator returns.                                 *)
(*                                                                         *)
(* The rate limiter (src/rate_limiter/src/lib.rs) is a contract of its own *)
(* with three entries in instance storage, CONFIG, WHITELIST and TRACKER,  *)
(* modelled the same way; the two contracts share the ledger clock only.   *)
(***************************************************************************)
EXTENDS Integers, Sequences, FiniteSets, TLC

VARIABLES
    schedules,   \* SCHEDULES: Map<u32, RemittanceSchedule>
    next_id,     \* NEXT_ID: u32, 0 while unset
    now,         \* env.ledger().timestamp()
    last,        \* the most recent committed invocation and what it returned
    issued,      \* history: the ids create_schedule has returned, in order
    configs,     \* rate limiter, CONFIG: Map<Symbol, RateLimitConfig>
    whitelist,   \* rate limiter, WHITELIST: Map<Address, bool>
    trackers     \* rate limiter, TRACKER: Map<(Address, Symbol), RateLimitTracker>

\* the instance storage of the rate limiter
limiter == <<configs, whitelist, trackers>>

vars == <<schedules, next_id, now, last, issued, configs, whitelist, trackers>>

----------------------------------------------------------------------------
(* Bounds of the exploration *)

\* create_schedule is explored while NEXT_ID is below MaxIds
MaxIds == 2
\* the ledger clock runs over the days 0..MaxDay
MaxDay == 2
\* and over the days 0..MaxDayMulti where several schedules are stored
MaxDayMulti == 1
\* the number of schedules created, one after the other, in Spec
MaxCreates == 1
\* the number of schedules created where the poller runs to the end
MaxLive == 1
\* rate limiter: max_calls is drawn from 0..MaxCalls
MaxCalls == 2
\* rate limiter: the ledger clock runs over the days 0..MaxDayRL
MaxDayRL == 2
\* rate limiter: a Custom window lasts MaxWindowDays days
MaxWindowDays == 2

(* Program constants *)
SECONDS_PER_DAY == 86400

----------------------------------------------------------------------------
(* Option<T>: None is the empty tuple, Some(v) the one-element tuple *)

None == << >>
Some(v) == << v >>
IsSome(o) == o # None
Unwrap(o) == o[1]

----------------------------------------------------------------------------
(* ScheduleFrequency and its discriminants *)

ScheduleFrequency == {"Weekly", "BiWeekly", "Monthly", "Custom"}

FrequencyAsU32(f) ==
    CASE f = "Weekly"   -> 7
      [] f = "BiWeekly" -> 14
      [] f = "Monthly"  -> 30
      [] f = "Custom"   -> 0

----------------------------------------------------------------------------
(* Inputs *)

Address == {"alice", "bob"}

Day(d) == d * SECONDS_PER_DAY

Timestamps == {Day(d) : d \in 0..MaxDay}

\* owner, amount and split_config_id of the create_schedule calls explored
CreatePayloads ==
    {[owner |-> "alice", amount |-> 1, split_config_id |-> Some(7)],
     [owner |-> "bob", amount |-> 3, split_config_id |-> None],
     [owner |-> "alice", amount |-> 0, split_config_id |-> None],
     [owner |-> "bob", amount |-> -1, split_config_id |-> None]}
FrequencyDaysInputs == {0, 1}
StartInputs == Timestamps
EndInputs == {None} \cup {Some(t) : t \in Timestamps \ {0}}
IdInputs == 1..MaxIds

\* who authorized the invocation (signer) and the address passed as caller:
\* each owner acting for itself, and bob passing alice's address
Invokers ==
    {[signer |-> "alice", caller |-> "alice"],
     [signer |-> "bob", caller |-> "bob"],
     [signer |-> "bob", caller |-> "alice"]}

\* the modify_schedule arguments explored: no field, each field alone with a
\* valid and an invalid value, and combinations of valid and invalid fields
MArgs(amount, frequency, frequency_days, end_timestamp) ==
    [amount |-> amount, frequency |-> frequency,
     frequency_days |-> frequency_days, end_timestamp |-> end_timestamp]

ModifyArgs ==
    {MArgs(None, None, None, None),
     MArgs(Some(5), None, None, None),
     MArgs(Some(0), None, None, None),
     MArgs(None, Some("Custom"), None, None),
     MArgs(None, Some("Custom"), Some(2), None),
     MArgs(None, Some("Custom"), Some(0), None),
     MArgs(None, Some("Monthly"), None, None),
     MArgs(None, Some("Monthly"), Some(0), None),
     MArgs(None, None, Some(2), None),
     MArgs(None, None, Some(0), None),
     MArgs(None, None, None, Some(None)),
     MArgs(Some(5), Some("Custom"), Some(0), None),
     MArgs(Some(0), Some("Monthly"), Some(2), Some(None)),
     MArgs(Some(5), Some("Monthly"), Some(2), Some(None))}
    \cup {MArgs(None, None, None, Some(Some(t))) : t \in Timestamps \ {0}}
    \cup {MArgs(Some(5), None, None, Some(Some(Day(1))))}

----------------------------------------------------------------------------
(* What an invocation hands back: the storage it leaves and its result.    *)
(* result is "Ok" or the panic message; ret is the returned value.         *)

Return(S, n, v) ==
    [schedules |-> S, next_id |-> n, result |-> "Ok", ret |-> Some(v)]

\* a panic aborts the invocation: nothing it wrote is kept
Panic(env, msg) ==
    [schedules |-> env.schedules, next_id |-> env.next_id,
     result |-> msg, ret |-> None]

\* Map::set
MapSet(S, k, v) == [i \in DOMAIN S \cup {k} |-> IF i = k THEN v ELSE S[i]]
\* Map::remove
MapRemove(S, k) == [i \in DOMAIN S \ {k} |-> S[i]]
\* Map::get(..).is_some()
MapHas(S, k) == k \in DOMAIN S

\* Address::require_auth: the invocation must be authorized by that address
RequireAuth(signer, address) == signer = address

Env == [schedules |-> schedules, next_id |-> next_id, timestamp |-> now]

----------------------------------------------------------------------------
(* create_schedule *)

NewSchedule_NextFromNow(id, owner, amount, split_config_id, frequency, frequency_days, start_timestamp, end_timestamp, current_time) ==
    [id |-> id,
     owner |-> owner,
     amount |-> amount,
     split_config_id |-> split_config_id,
     frequency |-> frequency,
     frequency_days |-> frequency_days,
     start_timestamp |-> start_timestamp,
     end_timestamp |-> end_timestamp,
     active |-> TRUE,
     last_executed |-> None,
     next_execution |-> current_time,
     created_at |-> current_time]

\* the RemittanceSchedule create_schedule builds
NewSchedule(id, owner, amount, split_config_id, frequency, frequency_days, start_timestamp, end_timestamp, current_time) ==
    [id |-> id,
     owner |-> owner,
     amount |-> amount,
     split_config_id |-> split_config_id,
     frequency |-> frequency,
     frequency_days |-> frequency_days,
     start_timestamp |-> start_timestamp,
     end_timestamp |-> end_timestamp,
     active |-> TRUE,
     last_executed |-> None,
     next_execution |-> start_timestamp,
     created_at |-> current_time]

ValidateCreate_NoEndCheck(amount, frequency, frequency_days, start_timestamp, end_timestamp, current_time) ==
    IF amount <= 0 THEN "Amount must be positive"
    ELSE IF frequency = "Custom" /\ frequency_days = 0
        THEN "Custom frequency requires frequency_days > 0"
    ELSE IF start_timestamp < current_time
        THEN "Start timestamp must be in the future"
    ELSE ""

ValidateCreate_StartStrict(amount, frequency, frequency_days, start_timestamp, end_timestamp, current_time) ==
    IF amount <= 0 THEN "Amount must be positive"
    ELSE IF frequency = "Custom" /\ frequency_days = 0
        THEN "Custom frequency requires frequency_days > 0"
    ELSE IF start_timestamp <= current_time
        THEN "Start timestamp must be in the future"
    ELSE IF IsSome(end_timestamp) /\ Unwrap(end_timestamp) <= start_timestamp
        THEN "End timestamp must be after start timestamp"
    ELSE ""

\* the parameter checks of create_schedule, in their order: the panic
\* message, or "" when all pass
ValidateCreate(amount, frequency, frequency_days, start_timestamp, end_timestamp, current_time) ==
    IF amount <= 0 THEN "Amount must be positive"
    ELSE IF frequency = "Custom" /\ frequency_days = 0
        THEN "Custom frequency requires frequency_days > 0"
    ELSE IF start_timestamp < current_time
        THEN "Start timestamp must be in the future"
    ELSE IF IsSome(end_timestamp) /\ Unwrap(end_timestamp) <= start_timestamp
        THEN "End timestamp must be after start timestamp"
    ELSE ""

AllocateId_FromSize(env) == Cardinality(DOMAIN env.schedules) + 1

\* NEXT_ID.unwrap_or(0) + 1
AllocateId(env) == env.next_id + 1

create_schedule_AllocatesFirst(env, signer, owner, amount, split_config_id, frequency, frequency_days, start_timestamp, end_timestamp) ==
    LET invalid == ValidateCreate(amount, frequency, frequency_days,
                                  start_timestamp, end_timestamp, env.timestamp)
        id == AllocateId(env)
    IN  IF ~RequireAuth(signer, owner) THEN Panic(env, "Unauthorized")
        ELSE IF invalid # "" THEN Panic([env EXCEPT !.next_id = id], invalid)
        ELSE
            LET schedule == NewSchedule(id, owner, amount, split_config_id,
                                        frequency, frequency_days, start_timestamp,
                                        end_timestamp, env.timestamp)
            IN Return(MapSet(env.schedules, id, schedule), id, id)

create_schedule(env, signer, owner, amount, split_config_id, frequency, frequency_days, start_timestamp, end_timestamp) ==
    LET invalid == ValidateCreate(amount, frequency, frequency_days,
                                  start_timestamp, end_timestamp, env.timestamp)
    IN  IF ~RequireAuth(signer, owner) THEN Panic(env, "Unauthorized")
        ELSE IF invalid # "" THEN Panic(env, invalid)
        ELSE
            LET id == AllocateId(env)
                schedule == NewSchedule(id, owner, amount, split_config_id,
                                        frequency, frequency_days, start_timestamp,
                                        end_timestamp, env.timestamp)
            IN Return(MapSet(env.schedules, id, schedule), id, id)

----------------------------------------------------------------------------
(* execute_schedule *)

\* the match on schedule.frequency
PeriodDays(schedule) ==
    IF schedule.frequency = "Custom"
    THEN schedule.frequency_days
    ELSE FrequencyAsU32(schedule.frequency)

NotReady_FromStart(schedule, current_time) == current_time < schedule.start_timestamp

\* current_time < schedule.next_execution
NotReady(schedule, current_time) == current_time < schedule.next_execution

PastEnd_Inclusive(schedule, current_time) ==
    IsSome(schedule.end_timestamp) /\ current_time >= Unwrap(schedule.end_timestamp)

PastEnd_Reversed(schedule, current_time) ==
    IsSome(schedule.end_timestamp) /\ current_time < Unwrap(schedule.end_timestamp)

\* if let Some(end) = schedule.end_timestamp { if current_time > end
PastEnd(schedule, current_time) ==
    IsSome(schedule.end_timestamp) /\ current_time > Unwrap(schedule.end_timestamp)

Expire_NotStored(schedule) == schedule

\* schedule.active = false, on expiry
Expire(schedule) == [schedule EXCEPT !.active = FALSE]

Advance_NoLastExecuted(schedule, current_time) ==
    [schedule EXCEPT
        !.next_execution = current_time + PeriodDays(schedule) * SECONDS_PER_DAY]

Advance_MovesStart(schedule, current_time) ==
    [schedule EXCEPT
        !.last_executed = Some(current_time),
        !.start_timestamp = current_time,
        !.next_execution = current_time + PeriodDays(schedule) * SECONDS_PER_DAY]

Advance_FromDue(schedule, current_time) ==
    [schedule EXCEPT
        !.last_executed = Some(current_time),
        !.next_execution =
            schedule.next_execution + PeriodDays(schedule) * SECONDS_PER_DAY]

\* last_executed and next_execution of an execution at current_time
Advance(schedule, current_time) ==
    [schedule EXCEPT
        !.last_executed = Some(current_time),
        !.next_execution = current_time + PeriodDays(schedule) * SECONDS_PER_DAY]

ExecuteDecision_NoExpiry(schedule, current_time) ==
    IF ~schedule.active THEN "Schedule is not active"
    ELSE IF NotReady(schedule, current_time) THEN "Schedule not ready for execution"
    ELSE "execute"

ExecuteDecision_EndFirst(schedule, current_time) ==
    IF ~schedule.active THEN "Schedule is not active"
    ELSE IF PastEnd(schedule, current_time) THEN "expire"
    ELSE IF NotReady(schedule, current_time) THEN "Schedule not ready for execution"
    ELSE "execute"

ExecuteDecision_DueFirst(schedule, current_time) ==
    IF NotReady(schedule, current_time) THEN "Schedule not ready for execution"
    ELSE IF ~schedule.active THEN "Schedule is not active"
    ELSE IF PastEnd(schedule, current_time) THEN "expire"
    ELSE "execute"

\* the checks of execute_schedule on the stored schedule, in their order
ExecuteDecision(schedule, current_time) ==
    IF ~schedule.active THEN "Schedule is not active"
    ELSE IF NotReady(schedule, current_time) THEN "Schedule not ready for execution"
    ELSE IF PastEnd(schedule, current_time) THEN "expire"
    ELSE "execute"

execute_schedule(env, schedule_id) ==
    IF ~MapHas(env.schedules, schedule_id) THEN Panic(env, "Schedule not found")
    ELSE
        LET schedule == env.schedules[schedule_id]
            current_time == env.timestamp
            decision == ExecuteDecision(schedule, current_time)
        IN  IF decision = "expire"
            THEN Return(MapSet(env.schedules, schedule_id, Expire(schedule)),
                        env.next_id, FALSE)
            ELSE IF decision = "execute"
            THEN Return(MapSet(env.schedules, schedule_id,
                               Advance(schedule, current_time)),
                        env.next_id, TRUE)
            ELSE Panic(env, decision)

----------------------------------------------------------------------------
(* pause_schedule, resume_schedule, cancel_schedule *)

Pause_Toggles(schedule) == [schedule EXCEPT !.active = ~schedule.active]

Pause_ResetsNext(schedule) ==
    [schedule EXCEPT !.active = FALSE, !.next_execution = schedule.start_timestamp]

\* schedule.active = false
Pause(schedule) == [schedule EXCEPT !.active = FALSE]

Resume_Reschedules(schedule) ==
    [schedule EXCEPT !.active = TRUE, !.next_execution = schedule.start_timestamp]

Resume_ClearsLast(schedule) ==
    [schedule EXCEPT !.active = TRUE, !.last_executed = None]

\* schedule.active = true
Resume(schedule) == [schedule EXCEPT !.active = TRUE]

\* pause_schedule pausing every schedule of the caller
pause_schedule_PausesAll(env, signer, caller, schedule_id) ==
    IF ~RequireAuth(signer, caller) THEN Panic(env, "Unauthorized")
    ELSE IF ~MapHas(env.schedules, schedule_id) THEN Panic(env, "Schedule not found")
    ELSE
        LET schedule == env.schedules[schedule_id]
        IN  IF schedule.owner # caller
            THEN Panic(env, "Only the schedule owner can pause it")
            ELSE Return([j \in DOMAIN env.schedules |->
                            IF env.schedules[j].owner = caller
                            THEN Pause(env.schedules[j]) ELSE env.schedules[j]],
                        env.next_id, TRUE)

pause_schedule(env, signer, caller, schedule_id) ==
    IF ~RequireAuth(signer, caller) THEN Panic(env, "Unauthorized")
    ELSE IF ~MapHas(env.schedules, schedule_id) THEN Panic(env, "Schedule not found")
    ELSE
        LET schedule == env.schedules[schedule_id]
        IN  IF schedule.owner # caller
            THEN Panic(env, "Only the schedule owner can pause it")
            ELSE Return(MapSet(env.schedules, schedule_id, Pause(schedule)),
                        env.next_id, TRUE)

resume_schedule_ChecksEnd(env, signer, caller, schedule_id) ==
    IF ~RequireAuth(signer, caller) THEN Panic(env, "Unauthorized")
    ELSE IF ~MapHas(env.schedules, schedule_id) THEN Panic(env, "Schedule not found")
    ELSE
        LET schedule == env.schedules[schedule_id]
        IN  IF schedule.owner # caller
            THEN Panic(env, "Only the schedule owner can resume it")
            ELSE IF PastEnd(schedule, env.timestamp)
            THEN Panic(env, "Schedule has expired")
            ELSE Return(MapSet(env.schedules, schedule_id, Resume(schedule)),
                        env.next_id, TRUE)

resume_schedule(env, signer, caller, schedule_id) ==
    IF ~RequireAuth(signer, caller) THEN Panic(env, "Unauthorized")
    ELSE IF ~MapHas(env.schedules, schedule_id) THEN Panic(env, "Schedule not found")
    ELSE
        LET schedule == env.schedules[schedule_id]
        IN  IF schedule.owner # caller
            THEN Panic(env, "Only the schedule owner can resume it")
            ELSE Return(MapSet(env.schedules, schedule_id, Resume(schedule)),
                        env.next_id, TRUE)

cancel_schedule_SoftDelete(env, signer, caller, schedule_id) ==
    IF ~RequireAuth(signer, caller) THEN Panic(env, "Unauthorized")
    ELSE IF ~MapHas(env.schedules, schedule_id) THEN Panic(env, "Schedule not found")
    ELSE
        LET schedule == env.schedules[schedule_id]
        IN  IF schedule.owner # caller
            THEN Panic(env, "Only the schedule owner can cancel it")
            ELSE Return(MapSet(env.schedules, schedule_id, Pause(schedule)),
                        env.next_id, TRUE)

cancel_schedule(env, signer, caller, schedule_id) ==
    IF ~RequireAuth(signer, caller) THEN Panic(env, "Unauthorized")
    ELSE IF ~MapHas(env.schedules, schedule_id) THEN Panic(env, "Schedule not found")
    ELSE
        LET schedule == env.schedules[schedule_id]
        IN  IF schedule.owner # caller
            THEN Panic(env, "Only the schedule owner can cancel it")
            ELSE Return(MapRemove(env.schedules, schedule_id), env.next_id, TRUE)

----------------------------------------------------------------------------
(* modify_schedule: the local copy is updated field by field, and a panic  *)
(* at any point drops the copy                                             *)

ModifyAmount_NoCheck(schedule, amount) ==
    IF IsSome(amount)
    THEN [panic |-> "", schedule |-> [schedule EXCEPT !.amount = Unwrap(amount)]]
    ELSE [panic |-> "", schedule |-> schedule]

\* if let Some(new_amount) = amount
ModifyAmount(schedule, amount) ==
    IF IsSome(amount)
    THEN IF Unwrap(amount) <= 0
         THEN [panic |-> "Amount must be positive", schedule |-> schedule]
         ELSE [panic |-> "", schedule |-> [schedule EXCEPT !.amount = Unwrap(amount)]]
    ELSE [panic |-> "", schedule |-> schedule]

ModifyFrequency_Reschedules(schedule, frequency, frequency_days) ==
    IF IsSome(frequency)
    THEN LET s1 == [schedule EXCEPT !.frequency = Unwrap(frequency),
                                    !.next_execution = schedule.start_timestamp]
         IN  IF Unwrap(frequency) = "Custom" /\ IsSome(frequency_days)
             THEN IF Unwrap(frequency_days) = 0
                  THEN [panic |-> "Custom frequency requires frequency_days > 0",
                        schedule |-> s1]
                  ELSE [panic |-> "",
                        schedule |-> [s1 EXCEPT !.frequency_days = Unwrap(frequency_days)]]
             ELSE [panic |-> "", schedule |-> s1]
    ELSE IF IsSome(frequency_days) /\ schedule.frequency = "Custom"
    THEN IF Unwrap(frequency_days) = 0
         THEN [panic |-> "Custom frequency requires frequency_days > 0",
               schedule |-> schedule]
         ELSE [panic |-> "",
               schedule |-> [schedule EXCEPT !.frequency_days = Unwrap(frequency_days)]]
    ELSE [panic |-> "", schedule |-> schedule]

ModifyFrequency_DaysAlways(schedule, frequency, frequency_days) ==
    IF IsSome(frequency)
    THEN LET s1 == [schedule EXCEPT !.frequency = Unwrap(frequency)]
         IN  IF Unwrap(frequency) = "Custom" /\ IsSome(frequency_days)
             THEN IF Unwrap(frequency_days) = 0
                  THEN [panic |-> "Custom frequency requires frequency_days > 0",
                        schedule |-> s1]
                  ELSE [panic |-> "",
                        schedule |-> [s1 EXCEPT !.frequency_days = Unwrap(frequency_days)]]
             ELSE [panic |-> "", schedule |-> s1]
    ELSE IF IsSome(frequency_days)
    THEN IF Unwrap(frequency_days) = 0
         THEN [panic |-> "Custom frequency requires frequency_days > 0",
               schedule |-> schedule]
         ELSE [panic |-> "",
               schedule |-> [schedule EXCEPT !.frequency_days = Unwrap(frequency_days)]]
    ELSE [panic |-> "", schedule |-> schedule]

ModifyFrequency_ResetsDays(schedule, frequency, frequency_days) ==
    IF IsSome(frequency)
    THEN LET s1 == [schedule EXCEPT !.frequency = Unwrap(frequency)]
         IN  IF Unwrap(frequency) = "Custom" /\ IsSome(frequency_days)
             THEN IF Unwrap(frequency_days) = 0
                  THEN [panic |-> "Custom frequency requires frequency_days > 0",
                        schedule |-> s1]
                  ELSE [panic |-> "",
                        schedule |-> [s1 EXCEPT !.frequency_days = Unwrap(frequency_days)]]
             ELSE [panic |-> "", schedule |-> [s1 EXCEPT !.frequency_days = 0]]
    ELSE IF IsSome(frequency_days) /\ schedule.frequency = "Custom"
    THEN IF Unwrap(frequency_days) = 0
         THEN [panic |-> "Custom frequency requires frequency_days > 0",
               schedule |-> schedule]
         ELSE [panic |-> "",
               schedule |-> [schedule EXCEPT !.frequency_days = Unwrap(frequency_days)]]
    ELSE [panic |-> "", schedule |-> schedule]

\* if let Some(new_frequency) = frequency .. else if let Some(days) = frequency_days
ModifyFrequency(schedule, frequency, frequency_days) ==
    IF IsSome(frequency)
    THEN LET s1 == [schedule EXCEPT !.frequency = Unwrap(frequency)]
         IN  IF Unwrap(frequency) = "Custom" /\ IsSome(frequency_days)
             THEN IF Unwrap(frequency_days) = 0
                  THEN [panic |-> "Custom frequency requires frequency_days > 0",
                        schedule |-> s1]
                  ELSE [panic |-> "",
                        schedule |-> [s1 EXCEPT !.frequency_days = Unwrap(frequency_days)]]
             ELSE [panic |-> "", schedule |-> s1]
    ELSE IF IsSome(frequency_days) /\ schedule.frequency = "Custom"
    THEN IF Unwrap(frequency_days) = 0
         THEN [panic |-> "Custom frequency requires frequency_days > 0",
               schedule |-> schedule]
         ELSE [panic |-> "",
               schedule |-> [schedule EXCEPT !.frequency_days = Unwrap(frequency_days)]]
    ELSE [panic |-> "", schedule |-> schedule]

ModifyEnd_ClearIgnored(schedule, end_timestamp) ==
    IF IsSome(end_timestamp) /\ IsSome(Unwrap(end_timestamp))
    THEN LET new_end == Unwrap(end_timestamp)
         IN  IF Unwrap(new_end) <= schedule.start_timestamp
             THEN [panic |-> "End timestamp must be after start timestamp",
                   schedule |-> schedule]
             ELSE [panic |-> "", schedule |-> [schedule EXCEPT !.end_timestamp = new_end]]
    ELSE [panic |-> "", schedule |-> schedule]

ModifyEnd_NonStrict(schedule, end_timestamp) ==
    IF IsSome(end_timestamp)
    THEN LET new_end == Unwrap(end_timestamp)
         IN  IF IsSome(new_end) /\ Unwrap(new_end) < schedule.start_timestamp
             THEN [panic |-> "End timestamp must be after start timestamp",
                   schedule |-> schedule]
             ELSE [panic |-> "", schedule |-> [schedule EXCEPT !.end_timestamp = new_end]]
    ELSE [panic |-> "", schedule |-> schedule]

\* if let Some(new_end) = end_timestamp
ModifyEnd(schedule, end_timestamp) ==
    IF IsSome(end_timestamp)
    THEN LET new_end == Unwrap(end_timestamp)
         IN  IF IsSome(new_end) /\ Unwrap(new_end) <= schedule.start_timestamp
             THEN [panic |-> "End timestamp must be after start timestamp",
                   schedule |-> schedule]
             ELSE [panic |-> "", schedule |-> [schedule EXCEPT !.end_timestamp = new_end]]
    ELSE [panic |-> "", schedule |-> schedule]

modify_schedule_NoOwnerCheck(env, signer, caller, schedule_id, amount, frequency, frequency_days, end_timestamp) ==
    IF ~RequireAuth(signer, caller) THEN Panic(env, "Unauthorized")
    ELSE IF ~MapHas(env.schedules, schedule_id) THEN Panic(env, "Schedule not found")
    ELSE
        LET schedule == env.schedules[schedule_id]
            a == ModifyAmount(schedule, amount)
            f == ModifyFrequency(a.schedule, frequency, frequency_days)
            e == ModifyEnd(f.schedule, end_timestamp)
        IN  IF a.panic # "" THEN Panic(env, a.panic)
            ELSE IF f.panic # "" THEN Panic(env, f.panic)
            ELSE IF e.panic # "" THEN Panic(env, e.panic)
            ELSE Return(MapSet(env.schedules, schedule_id, e.schedule),
                        env.next_id, TRUE)

modify_schedule(env, signer, caller, schedule_id, amount, frequency, frequency_days, end_timestamp) ==
    IF ~RequireAuth(signer, caller) THEN Panic(env, "Unauthorized")
    ELSE IF ~MapHas(env.schedules, schedule_id) THEN Panic(env, "Schedule not found")
    ELSE
        LET schedule == env.schedules[schedule_id]
            a == ModifyAmount(schedule, amount)
            f == ModifyFrequency(a.schedule, frequency, frequency_days)
            e == ModifyEnd(f.schedule, end_timestamp)
        IN  IF schedule.owner # caller
            THEN Panic(env, "Only the schedule owner can modify it")
            ELSE IF a.panic # "" THEN Panic(env, a.panic)
            ELSE IF f.panic # "" THEN Panic(env, f.panic)
            ELSE IF e.panic # "" THEN Panic(env, e.panic)
            ELSE Return(MapSet(env.schedules, schedule_id, e.schedule),
                        env.next_id, TRUE)

----------------------------------------------------------------------------
(* get_schedule, get_schedules, get_ready_schedules: read-only entry       *)
(* points; the vectors they return are sequences of records                *)

get_schedule(env, schedule_id) ==
    Return(env.schedules, env.next_id,
           IF MapHas(env.schedules, schedule_id)
           THEN Some(env.schedules[schedule_id]) ELSE None)

ScanIds_FromSize(env) == [i \in 1..Cardinality(DOMAIN env.schedules) |-> i]

\* for i in 1..=max_id, with max_id read from NEXT_ID
ScanIds(env) == [i \in 1..env.next_id |-> i]

\* result.push_back(schedule) for the ids kept, in their order
Collect(env, ids) == [k \in 1..Len(ids) |-> env.schedules[ids[k]]]

get_schedules(env, owner) ==
    Return(env.schedules, env.next_id,
           Collect(env, SelectSeq(ScanIds(env),
                                  LAMBDA i : /\ MapHas(env.schedules, i)
                                             /\ env.schedules[i].owner = owner)))

IsReady_EndStrict(schedule, current_time) ==
    /\ schedule.active
    /\ schedule.next_execution <= current_time
    /\ (~IsSome(schedule.end_timestamp) \/ Unwrap(schedule.end_timestamp) > current_time)

IsReady_NoEnd(schedule, current_time) ==
    schedule.active /\ schedule.next_execution <= current_time

\* schedule.active && next_execution <= current_time
\*   && (end_timestamp.is_none() || end_timestamp.unwrap() >= current_time)
IsReady(schedule, current_time) ==
    /\ schedule.active
    /\ schedule.next_execution <= current_time
    /\ (~IsSome(schedule.end_timestamp) \/ Unwrap(schedule.end_timestamp) >= current_time)

get_ready_schedules(env) ==
    Return(env.schedules, env.next_id,
           Collect(env, SelectSeq(ScanIds(env),
                                  LAMBDA i : /\ MapHas(env.schedules, i)
                                             /\ IsReady(env.schedules[i], env.timestamp))))

\* validate_schedule with the start check refusing a start at the current time
validate_schedule_StartStrict(env, amount, frequency, frequency_days, start_timestamp, end_timestamp) ==
    Return(env.schedules, env.next_id,
           IF amount <= 0 THEN FALSE
           ELSE IF frequency = "Custom" /\ frequency_days = 0 THEN FALSE
           ELSE IF start_timestamp <= env.timestamp THEN FALSE
           ELSE IF IsSome(end_timestamp) /\ Unwrap(end_timestamp) <= start_timestamp
               THEN FALSE
           ELSE TRUE)

\* validate_schedule: the four checks, each returning false, then true; it
\* takes no authorization and reads and writes no storage
validate_schedule(env, amount, frequency, frequency_days, start_timestamp, end_timestamp) ==
    Return(env.schedules, env.next_id,
           IF amount <= 0 THEN FALSE
           ELSE IF frequency = "Custom" /\ frequency_days = 0 THEN FALSE
           ELSE IF start_timestamp < env.timestamp THEN FALSE
           ELSE IF IsSome(end_timestamp) /\ Unwrap(end_timestamp) <= start_timestamp
               THEN FALSE
           ELSE TRUE)

----------------------------------------------------------------------------
(* The state machine *)

\* A panic leaves no trace on the ledger: the storage is rolled back and the
\* state is the one before the invocation.  An invocation that returns is
\* committed, and last keeps what it was and what it returned.
Commit(op, id, r) ==
    /\ schedules' = r.schedules
    /\ next_id' = r.next_id
    /\ last' = IF r.result = "Ok" THEN [op |-> op, id |-> id, ret |-> r.ret] ELSE last
    /\ issued' = IF op = "create" /\ r.result = "Ok"
                 THEN Append(issued, Unwrap(r.ret)) ELSE issued
    /\ UNCHANGED <<now, limiter>>

Init ==
    /\ schedules = << >>
    /\ next_id = 0
    /\ now = 0
    /\ last = [op |-> "init", id |-> 0, ret |-> None]
    /\ issued = << >>
    /\ configs = << >>
    /\ whitelist = << >>
    /\ trackers = << >>

\* the create_schedule calls explored
CreateInputs ==
    [signer : Address, payload : CreatePayloads, frequency : ScheduleFrequency,
     frequency_days : FrequencyDaysInputs, start_timestamp : StartInputs,
     end_timestamp : EndInputs]

CreateCall(env, c) ==
    create_schedule(env, c.signer, c.payload.owner, c.payload.amount,
                    c.payload.split_config_id, c.frequency, c.frequency_days,
                    c.start_timestamp, c.end_timestamp)

\* In Spec one schedule is stored at a time: the next one is created once the
\* previous one was cancelled, MaxCreates times in all
CreateExplored == next_id < MaxCreates /\ DOMAIN schedules = {}

\* The create_schedule calls Spec takes as steps: alice's schedules, signed by
\* either address, a Custom frequency with 1 day and the other frequencies
\* with 0 days.  The properties examine every call of CreateInputs.
CreateApplied ==
    {c \in CreateInputs :
        /\ c.payload.owner = "alice"
        /\ c.frequency = "Custom" <=> c.frequency_days = 1}

CreateSchedule ==
    /\ CreateExplored
    /\ \E c \in CreateApplied :
        LET r == CreateCall(Env, c)
        IN Commit("create", IF r.result = "Ok" THEN Unwrap(r.ret) ELSE 0, r)

ExecuteSchedule ==
    \E id \in IdInputs :
        Commit("execute", id, execute_schedule(Env, id))

PauseSchedule ==
    \E i \in Invokers, id \in IdInputs :
        Commit("pause", id, pause_schedule(Env, i.signer, i.caller, id))

ResumeSchedule ==
    \E i \in Invokers, id \in IdInputs :
        Commit("resume", id, resume_schedule(Env, i.signer, i.caller, id))

\* The modify_schedule requests Spec takes as steps: no field, a new amount, a
\* change to Custom without days, new custom days, an end cleared or set, and
\* the requests with an amount of 0 or with 0 custom days.
\* The properties examine every request of ModifyArgs.
ModifyApplied ==
    {MArgs(None, None, None, None),
     MArgs(Some(5), None, None, None),
     MArgs(Some(0), None, None, None),
     MArgs(None, Some("Custom"), None, None),
     MArgs(None, Some("Custom"), Some(0), None),
     MArgs(None, None, Some(2), None),
     MArgs(None, None, Some(0), None),
     MArgs(None, None, None, Some(None))}
    \cup {MArgs(None, None, None, Some(Some(t))) : t \in Timestamps \ {0}}

\* Changes are requested by the schedule's owner; the other invokers, and
\* requests for an id that is not stored, are explored with the request that
\* changes nothing (the checks that stop them come before any argument is read)
ModifyCalls ==
    {c \in [invoker : Invokers, id : IdInputs, args : ModifyApplied] :
        \/ c.args = MArgs(None, None, None, None)
        \/ /\ c.invoker.signer = c.invoker.caller
           /\ MapHas(schedules, c.id)
           /\ schedules[c.id].owner = c.invoker.caller}

ModifySchedule ==
    \E c \in ModifyCalls :
        Commit("modify", c.id,
               modify_schedule(Env, c.invoker.signer, c.invoker.caller, c.id,
                               c.args.amount, c.args.frequency,
                               c.args.frequency_days, c.args.end_timestamp))

CancelSchedule ==
    \E i \in Invokers, id \in IdInputs :
        Commit("cancel", id, cancel_schedule(Env, i.signer, i.caller, id))

\* A read-only invocation: the storage it leaves is committed, its value goes
\* back to the caller and is not kept
View(r) ==
    /\ schedules' = r.schedules
    /\ next_id' = r.next_id
    /\ UNCHANGED <<now, last, issued, limiter>>

GetSchedule == \E id \in IdInputs : View(get_schedule(Env, id))

GetSchedules == \E owner \in Address : View(get_schedules(Env, owner))

GetReadySchedules == View(get_ready_schedules(Env))

\* validate_schedule with the parameters of a create_schedule request
ValidateCall(env, c) ==
    validate_schedule(env, c.payload.amount, c.frequency, c.frequency_days,
                      c.start_timestamp, c.end_timestamp)

\* the validate_schedule calls taken as steps: alice's Weekly and Custom
\* requests that start on day 1 and have no end; the properties examine
\* every request
ValidateApplied ==
    {c \in CreateApplied : /\ c.signer = "alice" /\ c.end_timestamp = None
                           /\ c.frequency \in {"Weekly", "Custom"}
                           /\ c.start_timestamp = Day(1)}

ValidateSchedule == \E c \in ValidateApplied : View(ValidateCall(Env, c))

\* the clock with a timer of the engine: schedules past their end are
\* deactivated as time passes
Tick_Expires ==
    /\ now < Day(MaxDay)
    /\ now' = now + SECONDS_PER_DAY
    /\ last' = [op |-> "tick", id |-> 0, ret |-> None]
    /\ schedules' = [id \in DOMAIN schedules |->
                        IF PastEnd(schedules[id], now + SECONDS_PER_DAY)
                        THEN Expire(schedules[id]) ELSE schedules[id]]
    /\ UNCHANGED <<next_id, issued, limiter>>

\* the ledger closes and the clock moves on
Tick ==
    /\ now < Day(MaxDay)
    /\ now' = now + SECONDS_PER_DAY
    /\ last' = [op |-> "tick", id |-> 0, ret |-> None]
    /\ UNCHANGED <<schedules, next_id, issued, limiter>>

Next ==
    \/ CreateSchedule
    \/ ExecuteSchedule
    \/ PauseSchedule
    \/ ResumeSchedule
    \/ ModifySchedule
    \/ CancelSchedule
    \/ GetSchedule
    \/ GetSchedules
    \/ GetReadySchedules
    \/ ValidateSchedule
    \/ Tick

Spec == Init /\ [][Next]_vars

----------------------------------------------------------------------------
(* SpecMulti: several schedules stored at once.  The calls are the same     *)
(* handlers with fewer arguments explored: daily schedules of either owner, *)
(* starting at ledger time 0, without an end; a create_schedule call made   *)
(* later fails its validation.  modify_schedule, which touches one record   *)
(* only, is explored in Spec.  The clock runs over 0..MaxDayMulti.          *)

CreateInputsMulti ==
    {c \in CreateInputs :
        /\ c.payload.amount > 0
        /\ c.payload.owner = c.signer
        /\ c.frequency = "Custom" /\ c.frequency_days = 1
        /\ c.start_timestamp = 0
        /\ c.end_timestamp = None}

CreateScheduleMulti ==
    /\ next_id < MaxIds
    /\ \E c \in CreateInputsMulti :
        LET r == CreateCall(Env, c)
        IN Commit("create", IF r.result = "Ok" THEN Unwrap(r.ret) ELSE 0, r)

TickMulti ==
    /\ now < Day(MaxDayMulti)
    /\ now' = now + SECONDS_PER_DAY
    /\ last' = [op |-> "tick", id |-> 0, ret |-> None]
    /\ UNCHANGED <<schedules, next_id, issued, limiter>>

NextMulti ==
    \/ CreateScheduleMulti
    \/ ExecuteSchedule
    \/ PauseSchedule
    \/ ResumeSchedule
    \/ CancelSchedule
    \/ GetSchedule
    \/ GetSchedules
    \/ GetReadySchedules
    \/ ValidateSchedule
    \/ TickMulti

SpecMulti == Init /\ [][NextMulti]_vars

----------------------------------------------------------------------------
(* The rate limiter (src/rate_limiter/src/lib.rs) *)

TimeWindow == {"PerMinute", "PerHour", "PerDay", "Custom"}

\* time_window as u64
TimeWindowAsU64(w) ==
    CASE w = "PerMinute" -> 60
      [] w = "PerHour"   -> 3600
      [] w = "PerDay"    -> 86400
      [] w = "Custom"    -> 0

\* the function names the limiter is asked about
Symbols == {"transfer", "withdraw"}

EnvRL == [configs |-> configs, whitelist |-> whitelist, trackers |-> trackers, timestamp |-> now]

ReturnRL(C, W, T, v) ==
    [configs |-> C, whitelist |-> W, trackers |-> T, result |-> "Ok", ret |-> Some(v)]

\* a panic aborts the invocation: nothing it wrote is kept
PanicRL(env, msg) ==
    [configs |-> env.configs, whitelist |-> env.whitelist, trackers |-> env.trackers,
     result |-> msg, ret |-> None]

\* match time_window { Custom => window_seconds, _ => time_window as u64 }
WindowSeconds(time_window, window_seconds) ==
    IF time_window = "Custom" THEN window_seconds ELSE TimeWindowAsU64(time_window)

init_rate_limit(env, signer, admin, function_name, max_calls, time_window, window_seconds) ==
    IF ~RequireAuth(signer, admin) THEN PanicRL(env, "Unauthorized")
    ELSE IF max_calls = 0 THEN PanicRL(env, "Max calls must be greater than 0")
    ELSE IF time_window = "Custom" /\ window_seconds = 0
        THEN PanicRL(env, "Custom time window requires window_seconds > 0")
    ELSE
        LET config == [max_calls |-> max_calls, time_window |-> time_window,
                       window_seconds |-> WindowSeconds(time_window, window_seconds)]
        IN  ReturnRL(MapSet(env.configs, function_name, config),
                     env.whitelist, env.trackers, TRUE)

\* whitelist.get(address).unwrap_or(false)
OnWhitelist(W, address) == MapHas(W, address) /\ W[address]

\* trackers.get((caller, function_name)) or a tracker with no calls whose
\* window starts now
TrackerOf(T, caller, function_name, current_time) ==
    IF MapHas(T, <<caller, function_name>>) THEN T[<<caller, function_name>>]
    ELSE [calls |-> 0, window_start |-> current_time, last_reset |-> current_time]

\* Reset window if it has expired
ResetIfExpired(tracker, current_time, window_seconds) ==
    IF current_time >= tracker.window_start + window_seconds
    THEN [calls |-> 0, window_start |-> current_time, last_reset |-> current_time]
    ELSE tracker

LimitExceeded_Inclusive(tracker, config) == tracker.calls > config.max_calls

\* if tracker.calls >= config.max_calls
LimitExceeded(tracker, config) == tracker.calls >= config.max_calls

\* check_rate_limit recording the calls of whitelisted addresses as well
check_rate_limit_CountsWhitelisted(env, caller, function_name) ==
    IF ~MapHas(env.configs, function_name) THEN PanicRL(env, "Rate limit not configured")
    ELSE
        LET config == env.configs[function_name]
            window_seconds == WindowSeconds(config.time_window, config.window_seconds)
            tracker == ResetIfExpired(
                           TrackerOf(env.trackers, caller, function_name, env.timestamp),
                           env.timestamp, window_seconds)
            counted == MapSet(env.trackers, <<caller, function_name>>,
                              [tracker EXCEPT !.calls = @ + 1])
        IN  IF OnWhitelist(env.whitelist, caller)
                THEN ReturnRL(env.configs, env.whitelist, counted, TRUE)
            ELSE IF LimitExceeded(tracker, config)
                THEN PanicRL(env, "Rate limit exceeded for function")
            ELSE ReturnRL(env.configs, env.whitelist, counted, TRUE)

\* check_rate_limit takes no authorization: the configuration of the
\* function, the whitelist, the caller's tracker with its window, the limit,
\* the count
check_rate_limit(env, caller, function_name) ==
    IF ~MapHas(env.configs, function_name) THEN PanicRL(env, "Rate limit not configured")
    ELSE IF OnWhitelist(env.whitelist, caller)
        THEN ReturnRL(env.configs, env.whitelist, env.trackers, TRUE)
    ELSE
        LET config == env.configs[function_name]
            window_seconds == WindowSeconds(config.time_window, config.window_seconds)
            tracker == ResetIfExpired(
                           TrackerOf(env.trackers, caller, function_name, env.timestamp),
                           env.timestamp, window_seconds)
        IN  IF LimitExceeded(tracker, config)
                THEN PanicRL(env, "Rate limit exceeded for function")
            ELSE ReturnRL(env.configs, env.whitelist,
                          MapSet(env.trackers, <<caller, function_name>>,
                                 [tracker EXCEPT !.calls = @ + 1]),
                          TRUE)

add_to_whitelist(env, signer, admin, address) ==
    IF ~RequireAuth(signer, admin) THEN PanicRL(env, "Unauthorized")
    ELSE ReturnRL(env.configs, MapSet(env.whitelist, address, TRUE), env.trackers, TRUE)

remove_from_whitelist(env, signer, admin, address) ==
    IF ~RequireAuth(signer, admin) THEN PanicRL(env, "Unauthorized")
    ELSE ReturnRL(env.configs, MapRemove(env.whitelist, address), env.trackers, TRUE)

reset_rate_limit(env, signer, admin, caller, function_name) ==
    IF ~RequireAuth(signer, admin) THEN PanicRL(env, "Unauthorized")
    ELSE
        LET new_tracker == [calls |-> 0, window_start |-> env.timestamp,
                            last_reset |-> env.timestamp]
        IN  ReturnRL(env.configs, env.whitelist,
                     MapSet(env.trackers, <<caller, function_name>>, new_tracker), TRUE)

is_whitelisted(env, address) ==
    ReturnRL(env.configs, env.whitelist, env.trackers, OnWhitelist(env.whitelist, address))

\* get_rate_limit_status: the tracker as stored (or one with no calls), read
\* without the whitelist and without the reset of an expired window
get_rate_limit_status(env, caller, function_name) ==
    IF ~MapHas(env.configs, function_name) THEN PanicRL(env, "Rate limit not configured")
    ELSE
        LET config == env.configs[function_name]
            window_seconds == WindowSeconds(config.time_window, config.window_seconds)
            tracker == TrackerOf(env.trackers, caller, function_name, env.timestamp)
            window_end == tracker.window_start + window_seconds
            calls_remaining == IF tracker.calls >= config.max_calls THEN 0
                               ELSE config.max_calls - tracker.calls
        IN  ReturnRL(env.configs, env.whitelist, env.trackers,
                     [calls_remaining |-> calls_remaining,
                      window_start |-> tracker.window_start,
                      window_end |-> window_end,
                      is_limited |-> tracker.calls >= config.max_calls])

(* The state machine of the rate limiter *)

CommitRL(op, id, r) ==
    /\ configs' = r.configs
    /\ whitelist' = r.whitelist
    /\ trackers' = r.trackers
    /\ last' = IF r.result = "Ok" THEN [op |-> op, id |-> id, ret |-> r.ret] ELSE last
    /\ UNCHANGED <<schedules, next_id, issued, now>>

\* the init_rate_limit requests examined
InitInputs ==
    [signer : Address, admin : Address, function_name : Symbols,
     max_calls : 0..MaxCalls, time_window : TimeWindow,
     window_seconds : {0, Day(MaxWindowDays)}]

InitCall(env, i) ==
    init_rate_limit(env, i.signer, i.admin, i.function_name, i.max_calls,
                    i.time_window, i.window_seconds)

\* The init_rate_limit calls SpecRL takes as steps, made by alice for herself
\* or by bob in her name: "transfer" with a window of a day or a Custom one
\* (with and without its seconds), "withdraw" with one call a minute
InitApplied ==
    {i \in InitInputs :
        /\ i.admin = "alice"
        /\ \/ /\ i.function_name = "transfer"
              /\ i.time_window \in {"PerDay", "Custom"}
              /\ i.time_window = "PerDay" => i.window_seconds = 0
           \/ /\ i.function_name = "withdraw"
              /\ i.time_window = "PerMinute"
              /\ i.max_calls = 1
              /\ i.window_seconds = 0}

InitRateLimit ==
    \E i \in InitApplied : CommitRL("init_rate_limit", i.function_name, InitCall(EnvRL, i))

\* the check_rate_limit calls taken as steps: either address on "transfer",
\* bob on "withdraw"
CheckApplied == {<<"alice", "transfer">>, <<"bob", "transfer">>, <<"bob", "withdraw">>}

CheckRateLimit ==
    \E <<caller, function_name>> \in CheckApplied :
        CommitRL("check_rate_limit", <<caller, function_name>>,
                 check_rate_limit(EnvRL, caller, function_name))

\* whitelisting is taken as a step for bob, by either address as the admin
AddToWhitelist ==
    \E admin \in Address :
        CommitRL("add_to_whitelist", "bob", add_to_whitelist(EnvRL, admin, admin, "bob"))

RemoveFromWhitelist ==
    \E admin \in Address :
        CommitRL("remove_from_whitelist", "bob",
                 remove_from_whitelist(EnvRL, admin, admin, "bob"))

\* a reset is taken as a step for bob's calls of "transfer"
ResetRateLimit ==
    \E admin \in Address :
        CommitRL("reset_rate_limit", <<"bob", "transfer">>,
                 reset_rate_limit(EnvRL, admin, admin, "bob", "transfer"))

IsWhitelisted ==
    \E address \in Address :
        LET r == is_whitelisted(EnvRL, address)
        IN  /\ configs' = r.configs
            /\ whitelist' = r.whitelist
            /\ trackers' = r.trackers
            /\ UNCHANGED <<schedules, next_id, issued, now, last>>

GetRateLimitStatus ==
    \E caller \in Address, function_name \in Symbols :
        LET r == get_rate_limit_status(EnvRL, caller, function_name)
        IN  /\ configs' = r.configs
            /\ whitelist' = r.whitelist
            /\ trackers' = r.trackers
            /\ UNCHANGED <<schedules, next_id, issued, now, last>>

TickRL ==
    /\ now < Day(MaxDayRL)
    /\ now' = now + SECONDS_PER_DAY
    /\ last' = [op |-> "tick", id |-> 0, ret |-> None]
    /\ UNCHANGED <<schedules, next_id, issued, limiter>>

NextRL ==
    \/ InitRateLimit
    \/ CheckRateLimit
    \/ AddToWhitelist
    \/ RemoveFromWhitelist
    \/ ResetRateLimit
    \/ IsWhitelisted
    \/ GetRateLimitStatus
    \/ TickRL

SpecRL == Init /\ [][NextRL]_vars

----------------------------------------------------------------------------
(* Properties.  A call that panics leaves the state as it was, so what a   *)
(* call does is stated on the state it is made in: for every call that can *)
(* be made there, the result and the storage the handler returns.          *)

StoreOf(r) == [schedules |-> r.schedules, next_id |-> r.next_id]
Store == [schedules |-> schedules, next_id |-> next_id]

ValidationErrors ==
    {"Amount must be positive",
     "Custom frequency requires frequency_days > 0",
     "Start timestamp must be in the future",
     "End timestamp must be after start timestamp"}

\* C1: a create_schedule call that succeeds stores, under the id it returns,
\* a record with next_execution = start_timestamp, active = true,
\* last_executed = None, created_at = the ledger time of the call, and owner,
\* amount, split_config_id, frequency, frequency_days, start_timestamp and
\* end_timestamp equal to the arguments.
C1_CreateStoresArguments ==
    CreateExplored =>
        \A c \in CreateInputs :
            LET r == CreateCall(Env, c)
            IN  r.result = "Ok" =>
                    /\ MapHas(r.schedules, Unwrap(r.ret))
                    /\ LET s == r.schedules[Unwrap(r.ret)]
                       IN  /\ s.next_execution = c.start_timestamp
                           /\ s.active = TRUE
                           /\ s.last_executed = None
                           /\ s.created_at = now
                           /\ s.owner = c.payload.owner
                           /\ s.amount = c.payload.amount
                           /\ s.split_config_id = c.payload.split_config_id
                           /\ s.frequency = c.frequency
                           /\ s.frequency_days = c.frequency_days
                           /\ s.start_timestamp = c.start_timestamp
                           /\ s.end_timestamp = c.end_timestamp

\* a schedule just created at a later ledger time, to start later still, with
\* a split configuration
C1_Witness ==
    /\ last.op = "create"
    /\ MapHas(schedules, last.id)
    /\ LET s == schedules[last.id]
       IN  /\ s.created_at = now /\ now > 0
           /\ s.start_timestamp > now
           /\ s.next_execution = s.start_timestamp
           /\ s.active /\ s.last_executed = None
           /\ IsSome(s.split_config_id)

\* what the claim lists as invalid
C2_Invalid(c) ==
    \/ c.payload.amount <= 0
    \/ c.frequency = "Custom" /\ c.frequency_days = 0
    \/ c.start_timestamp < now
    \/ IsSome(c.end_timestamp) /\ Unwrap(c.end_timestamp) <= c.start_timestamp

\* C2: a create_schedule call authorized by the owner panics with a
\* validation message if and only if amount <= 0, or frequency is Custom with
\* frequency_days = 0, or start_timestamp < now, or end_timestamp is present
\* and <= start_timestamp; every other call succeeds, so start_timestamp = now
\* and a frequency other than Custom with frequency_days = 0 are accepted.
C2_CreateFailsIffInvalid ==
    CreateExplored =>
        \A c \in CreateInputs :
            c.signer = c.payload.owner =>
                LET r == CreateCall(Env, c)
                IN  /\ r.result \in ValidationErrors <=> C2_Invalid(c)
                    /\ r.result = "Ok" <=> ~C2_Invalid(c)

\* a state in which create_schedule is called where each of the four
\* rejections happens once, and a call with start_timestamp = now, a frequency
\* other than Custom and frequency_days = 0 is accepted
C2_Witness ==
    /\ CreateExplored
    /\ now > 0
    /\ \A m \in ValidationErrors :
        \E c \in CreateInputs :
            c.signer = c.payload.owner /\ CreateCall(Env, c).result = m
    /\ \E c \in CreateInputs :
        /\ c.start_timestamp = now /\ c.frequency # "Custom" /\ c.frequency_days = 0
        /\ CreateCall(Env, c).result = "Ok"

\* C3: the ids create_schedule returns are positive, start at 1 and strictly
\* increase from one successful call to the next, also after schedules were
\* cancelled; every stored record was issued its id and carries it in its id
\* field, which equals the key it is stored under.
C3_IdsFreshAndIncreasing ==
    /\ \A k \in 1..Len(issued) : issued[k] > 0
    /\ Len(issued) > 0 => issued[1] = 1
    /\ \A j, k \in 1..Len(issued) : j < k => issued[j] < issued[k]
    /\ \A id \in DOMAIN schedules :
        /\ schedules[id].id = id
        /\ \E k \in 1..Len(issued) : issued[k] = id
    /\ \A c \in CreateInputsMulti :
        LET r == CreateCall(Env, c)
        IN  r.result = "Ok" =>
                /\ \A k \in 1..Len(issued) : Unwrap(r.ret) > issued[k]
                /\ ~MapHas(schedules, Unwrap(r.ret))

\* id 2 was just returned after the schedule with id 1 was cancelled
C3_Witness ==
    /\ last.op = "create" /\ last.id = 2
    /\ issued = <<1, 2>>
    /\ DOMAIN schedules = {2}
    /\ schedules[2].id = 2

----------------------------------------------------------------------------
(* execute_schedule *)

Stored(id) == MapHas(schedules, id)

\* C4: execute_schedule on a stored, active schedule at a ledger time before
\* its next_execution panics with "Schedule not ready for execution" and
\* leaves every record and NEXT_ID as they were.
C4_NotDueLeavesStore ==
    \A id \in IdInputs :
        (Stored(id) /\ schedules[id].active /\ now < schedules[id].next_execution) =>
            LET r == execute_schedule(Env, id)
            IN  /\ r.result = "Schedule not ready for execution"
                /\ StoreOf(r) = Store

\* a schedule that was executed, is active, and is called again before its
\* next_execution
C4_Witness ==
    \E id \in IdInputs :
        /\ Stored(id) /\ schedules[id].active
        /\ IsSome(schedules[id].last_executed)
        /\ now > Unwrap(schedules[id].last_executed)
        /\ now < schedules[id].next_execution
        /\ execute_schedule(Env, id).result = "Schedule not ready for execution"

\* C5: execute_schedule on a stored schedule with active = false panics with
\* "Schedule is not active", whatever the ledger time, next_execution and
\* end_timestamp are, and leaves the storage as it was.
C5_NotActiveLeavesStore ==
    \A id \in IdInputs :
        (Stored(id) /\ ~schedules[id].active) =>
            LET r == execute_schedule(Env, id)
            IN  /\ r.result = "Schedule is not active"
                /\ StoreOf(r) = Store

\* an inactive schedule that is not yet due and already past its end
C5_Witness ==
    \E id \in IdInputs :
        /\ Stored(id) /\ ~schedules[id].active
        /\ now < schedules[id].next_execution
        /\ IsSome(schedules[id].end_timestamp)
        /\ now > Unwrap(schedules[id].end_timestamp)
        /\ execute_schedule(Env, id).result = "Schedule is not active"

\* the period the claim gives for a schedule, in seconds
C6_Period(s) ==
    CASE s.frequency = "Weekly"   -> 7 * 86400
      [] s.frequency = "BiWeekly" -> 14 * 86400
      [] s.frequency = "Monthly"  -> 30 * 86400
      [] s.frequency = "Custom"   -> s.frequency_days * 86400

\* C6: an execute_schedule call that returns true sets last_executed to the
\* ledger time of the call and next_execution to that time plus the period
\* (7, 14 or 30 days, or frequency_days days for Custom), whatever the
\* previous next_execution was, and changes no other field of the record.
C6_ExecuteAdvancesFromNow ==
    \A id \in IdInputs :
        LET r == execute_schedule(Env, id)
        IN  (r.result = "Ok" /\ r.ret = Some(TRUE)) =>
                /\ Stored(id)
                /\ r.schedules[id] =
                       [schedules[id] EXCEPT
                           !.last_executed = Some(now),
                           !.next_execution = now + C6_Period(schedules[id])]

\* a schedule executed after its due time: next_execution counts from the
\* execution, not from the missed due time
C6_Witness ==
    /\ last.op = "execute" /\ last.ret = Some(TRUE)
    /\ Stored(last.id)
    /\ LET s == schedules[last.id]
       IN  /\ s.start_timestamp < now
           /\ s.last_executed = Some(now)
           /\ s.next_execution = now + C6_Period(s)
           /\ s.next_execution # s.start_timestamp + C6_Period(s)
           /\ s.frequency = "Monthly"

\* C7 as stated: execute_schedule on an active schedule past its
\* end_timestamp returns false, sets active = false and leaves last_executed
\* and next_execution as they were.
C7_Original ==
    \A id \in IdInputs :
        (Stored(id) /\ schedules[id].active /\ IsSome(schedules[id].end_timestamp)
            /\ now > Unwrap(schedules[id].end_timestamp)) =>
            LET r == execute_schedule(Env, id)
            IN  /\ r.result = "Ok" /\ r.ret = Some(FALSE)
                /\ r.schedules[id] = [schedules[id] EXCEPT !.active = FALSE]

\* C7, amended: execute_schedule on an active schedule that is due
\* (now >= next_execution) and past its end_timestamp returns false, sets
\* active = false and changes nothing else of the record; last_executed and
\* next_execution stay as they were.
C7_ExpiryDeactivates ==
    \A id \in IdInputs :
        (Stored(id) /\ schedules[id].active /\ IsSome(schedules[id].end_timestamp)
            /\ now > Unwrap(schedules[id].end_timestamp)
            /\ now >= schedules[id].next_execution) =>
            LET r == execute_schedule(Env, id)
            IN  /\ r.result = "Ok" /\ r.ret = Some(FALSE)
                /\ r.schedules[id] = [schedules[id] EXCEPT !.active = FALSE]
                /\ r.next_id = next_id

\* a schedule that was executed once, then found past its end and deactivated
C7_Witness ==
    /\ last.op = "execute" /\ last.ret = Some(FALSE)
    /\ Stored(last.id)
    /\ LET s == schedules[last.id]
       IN  /\ ~s.active
           /\ IsSome(s.end_timestamp) /\ now > Unwrap(s.end_timestamp)
           /\ IsSome(s.last_executed) /\ Unwrap(s.last_executed) < now
           /\ s.next_execution <= now

\* C8 as stated: right after an execute_schedule call returned true, at the
\* same ledger time, another execute_schedule call on the same id panics with
\* "Schedule not ready for execution".
C8_Original ==
    (last.op = "execute" /\ last.ret = Some(TRUE)) =>
        execute_schedule(Env, last.id).result = "Schedule not ready for execution"

\* the callers that race for one due cycle
NCallers == 2

\* N invocations of execute_schedule(id) at one ledger time, in the order the
\* ledger applies them: the storage they leave and what each returned
RECURSIVE ExecuteRun(_, _, _)
ExecuteRun(env, schedule_id, n) ==
    IF n = 0 THEN [env |-> env, results |-> << >>]
    ELSE LET before == ExecuteRun(env, schedule_id, n - 1)
             r == execute_schedule(before.env, schedule_id)
         IN  [env |-> [schedules |-> r.schedules, next_id |-> r.next_id,
                       timestamp |-> env.timestamp],
              results |-> Append(before.results,
                                 IF r.result # "Ok" THEN r.result
                                 ELSE IF r.ret = Some(TRUE) THEN "Success"
                                 ELSE "Expired")]

\* C9 as stated: when N >= 2 callers invoke execute_schedule for the same id
\* at the same ledger time on an active schedule that is due and not past its
\* end, exactly one of them gets Success, every other one gets "Schedule not
\* ready for execution", and the record is advanced once.
C9_Original ==
    \A id \in IdInputs :
        (Stored(id) /\ schedules[id].active /\ now >= schedules[id].next_execution
            /\ ~(IsSome(schedules[id].end_timestamp)
                 /\ now > Unwrap(schedules[id].end_timestamp))) =>
            LET run == ExecuteRun(Env, id, NCallers)
                won == {k \in 1..NCallers : run.results[k] = "Success"}
            IN  /\ Cardinality(won) = 1
                /\ \A k \in (1..NCallers) \ won :
                       run.results[k] = "Schedule not ready for execution"
                /\ run.env.schedules[id] =
                       [schedules[id] EXCEPT
                           !.last_executed = Some(now),
                           !.next_execution = now + C6_Period(schedules[id])]

----------------------------------------------------------------------------
(* pause_schedule *)

\* C10: pause_schedule by the owner of a stored schedule succeeds, sets
\* active = false and changes no other field of the record: next_execution
\* and last_executed are as before.
C10_PauseOnlyClearsActive ==
    \A i \in Invokers, id \in IdInputs :
        (Stored(id) /\ i.signer = i.caller /\ schedules[id].owner = i.caller) =>
            LET r == pause_schedule(Env, i.signer, i.caller, id)
            IN  /\ r.result = "Ok"
                /\ r.schedules[id] = [schedules[id] EXCEPT !.active = FALSE]
                /\ r.schedules[id].next_execution = schedules[id].next_execution
                /\ r.schedules[id].last_executed = schedules[id].last_executed

\* a schedule paused after an execution, before it is due again
C10_Witness ==
    /\ last.op = "pause"
    /\ Stored(last.id)
    /\ LET s == schedules[last.id]
       IN  /\ ~s.active
           /\ IsSome(s.last_executed)
           /\ s.next_execution > now
           /\ s.next_execution # s.start_timestamp

----------------------------------------------------------------------------
(* resume_schedule *)

\* the environment an invocation leaves, read at ledger time t
EnvOf(r, t) == [schedules |-> r.schedules, next_id |-> r.next_id, timestamp |-> t]

\* the invokers that are the owner of the stored schedule id, acting for itself
OwnerOf(id) ==
    {i \in Invokers : i.signer = i.caller /\ schedules[id].owner = i.caller}

\* C11: pause_schedule followed by resume_schedule, both by the owner, with
\* no other invocation on that id in between (the clock may move on), gives
\* back the record as it was before the pause in every field, with
\* active = true.
C11_PauseResumeRoundTrip ==
    \A id \in IdInputs :
        Stored(id) =>
            \A i \in OwnerOf(id), t \in {u \in Timestamps : u >= now} :
                LET p == pause_schedule(Env, i.signer, i.caller, id)
                    r == resume_schedule(EnvOf(p, t), i.signer, i.caller, id)
                IN  /\ p.result = "Ok" /\ r.result = "Ok"
                    /\ r.schedules = MapSet(schedules, id,
                                            [schedules[id] EXCEPT !.active = TRUE])
                    /\ r.next_id = next_id

\* a schedule that was executed and has an end, paused and then resumed: it
\* is the record from before the pause, which was active
C11_Witness ==
    /\ last.op = "resume"
    /\ Stored(last.id)
    /\ LET s == schedules[last.id]
       IN  /\ s.active
           /\ IsSome(s.last_executed)
           /\ IsSome(s.end_timestamp)
           /\ s.next_execution # s.start_timestamp
           /\ \E i \in OwnerOf(last.id) :
                LET p == pause_schedule(Env, i.signer, i.caller, last.id)
                IN  /\ ~p.schedules[last.id].active
                    /\ resume_schedule(EnvOf(p, now), i.signer, i.caller,
                                       last.id).schedules = schedules

\* C12: resume_schedule by the owner succeeds for every stored schedule,
\* active or not, also when the ledger time is past end_timestamp, and
\* changes nothing but active, which becomes true.
C12_ResumeUnconditional ==
    \A id \in IdInputs :
        Stored(id) =>
            \A i \in OwnerOf(id) :
                LET r == resume_schedule(Env, i.signer, i.caller, id)
                IN  /\ r.result = "Ok" /\ r.ret = Some(TRUE)
                    /\ r.schedules = MapSet(schedules, id,
                                            [schedules[id] EXCEPT !.active = TRUE])
                    /\ r.next_id = next_id

\* a schedule that execute_schedule has just deactivated because the ledger
\* time is past its end, which resume_schedule sets active again
C12_Witness ==
    /\ last.op = "execute" /\ last.ret = Some(FALSE)
    /\ Stored(last.id)
    /\ ~schedules[last.id].active
    /\ IsSome(schedules[last.id].end_timestamp)
    /\ now > Unwrap(schedules[last.id].end_timestamp)
    /\ \E i \in OwnerOf(last.id) :
        LET r == resume_schedule(Env, i.signer, i.caller, last.id)
        IN  r.result = "Ok" /\ r.schedules[last.id].active

\* the ids of the schedules in a returned vector, in its order
IdsOf(vec) == [k \in 1..Len(vec) |-> vec[k].id]

InVec(vec, id) == \E k \in 1..Len(vec) : vec[k].id = id

\* C13 as stated: a schedule execute_schedule deactivated on expiry and the
\* owner then resumes is, at the ledger time of the resume, listed by
\* get_ready_schedules and executed by execute_schedule (true, with
\* last_executed = now).
C13_Original ==
    (last.op = "execute" /\ last.ret = Some(FALSE) /\ Stored(last.id)) =>
        \A i \in OwnerOf(last.id), t \in {u \in Timestamps : u >= now} :
            LET r == resume_schedule(EnvOf(Store, t), i.signer, i.caller, last.id)
                ready == Unwrap(get_ready_schedules(EnvOf(r, t)).ret)
                x == execute_schedule(EnvOf(r, t), last.id)
            IN  /\ r.result = "Ok"
                /\ InVec(ready, last.id)
                /\ x.result = "Ok" /\ x.ret = Some(TRUE)
                /\ x.schedules[last.id].last_executed = Some(t)

\* C13 amended: a schedule execute_schedule deactivated on expiry and the
\* owner then resumes, its end_timestamp as it was, is active but not
\* eligible: at the ledger time of the resume get_ready_schedules does not
\* list it, and execute_schedule returns false and deactivates it again,
\* leaving last_executed and next_execution as they were.
C13_ResumedExpiredExpiresAgain ==
    (last.op = "execute" /\ last.ret = Some(FALSE) /\ Stored(last.id)) =>
        \A i \in OwnerOf(last.id), t \in {u \in Timestamps : u >= now} :
            LET r == resume_schedule(EnvOf(Store, t), i.signer, i.caller, last.id)
                ready == Unwrap(get_ready_schedules(EnvOf(r, t)).ret)
                x == execute_schedule(EnvOf(r, t), last.id)
            IN  /\ r.result = "Ok" /\ r.schedules[last.id].active
                /\ ~InVec(ready, last.id)
                /\ x.result = "Ok" /\ x.ret = Some(FALSE)
                /\ x.schedules = schedules
                /\ ~x.schedules[last.id].active

\* a schedule that was executed once and has just been deactivated on expiry
C13_Witness ==
    /\ last.op = "execute" /\ last.ret = Some(FALSE)
    /\ Stored(last.id)
    /\ ~schedules[last.id].active
    /\ IsSome(schedules[last.id].last_executed)
    /\ now > Unwrap(schedules[last.id].end_timestamp)
    /\ now >= schedules[last.id].next_execution

----------------------------------------------------------------------------
(* modify_schedule *)

ModifyCall(env, i, id, a) ==
    modify_schedule(env, i.signer, i.caller, id,
                    a.amount, a.frequency, a.frequency_days, a.end_timestamp)

\* the value of a field after an update: the argument if present
C14_Updated(arg, stored) == IF IsSome(arg) THEN Unwrap(arg) ELSE stored

ModifyErrors ==
    {"Amount must be positive",
     "Custom frequency requires frequency_days > 0",
     "End timestamp must be after start timestamp"}

\* what C15 calls an invalid request for the stored schedule s
C15_Invalid(a, s) ==
    \/ IsSome(a.amount) /\ Unwrap(a.amount) <= 0
    \/ /\ IsSome(a.frequency_days) /\ Unwrap(a.frequency_days) = 0
       /\ C14_Updated(a.frequency, s.frequency) = "Custom"
    \/ /\ IsSome(a.end_timestamp) /\ IsSome(Unwrap(a.end_timestamp))
       /\ Unwrap(Unwrap(a.end_timestamp)) <= s.start_timestamp

\* C15: modify_schedule by the owner fails with a validation error exactly
\* when a given amount is <= 0, or a given frequency_days is 0 and the
\* effective frequency is Custom, or a given present end_timestamp is <= the
\* stored start_timestamp (the ledger time, last_executed and next_execution
\* play no part); the failed call leaves the whole store unchanged, also for
\* the fields whose new values were valid.
C15_ModifyFailsIffInvalid ==
    \A id \in IdInputs :
        Stored(id) =>
            \A i \in OwnerOf(id), a \in ModifyArgs :
                LET r == ModifyCall(Env, i, id, a)
                IN  /\ r.result \in ModifyErrors <=> C15_Invalid(a, schedules[id])
                    /\ r.result = "Ok" <=> ~C15_Invalid(a, schedules[id])
                    /\ r.result # "Ok" => StoreOf(r) = Store

\* an executed schedule at a ledger time past day 1: a request with a valid
\* amount and an end equal to the stored start fails and stores nothing of
\* it, so does one with a valid amount and Custom with 0 days, while an end
\* of day 2, not after now and before next_execution, is accepted
C15_Witness ==
    \E id \in IdInputs :
        /\ Stored(id)
        /\ schedules[id].start_timestamp = Day(1)
        /\ IsSome(schedules[id].last_executed)
        /\ now > Day(1)
        /\ schedules[id].next_execution > now
        /\ schedules[id].amount # 5
        /\ \E i \in OwnerOf(id) :
            LET bad_end == ModifyCall(Env, i, id, MArgs(Some(5), None, None, Some(Some(Day(1)))))
                bad_days == ModifyCall(Env, i, id, MArgs(Some(5), Some("Custom"), Some(0), None))
                good_end == ModifyCall(Env, i, id, MArgs(None, None, None, Some(Some(Day(2)))))
            IN  /\ bad_end.result = "End timestamp must be after start timestamp"
                /\ bad_end.schedules = schedules
                /\ bad_days.result = "Custom frequency requires frequency_days > 0"
                /\ bad_days.schedules = schedules
                /\ good_end.result = "Ok"
                /\ Day(2) <= now

\* C16: the end_timestamp argument of modify_schedule is one of three
\* instructions: absent leaves the stored end_timestamp as it is, Some(None)
\* clears it and is always accepted, Some(Some(v)) is accepted exactly when
\* v > start_timestamp and then stores Some(v).
C16_EndThreeWay ==
    \A id \in IdInputs :
        Stored(id) =>
            \A i \in OwnerOf(id) :
                LET s == schedules[id]
                    clear == ModifyCall(Env, i, id, MArgs(None, None, None, Some(None)))
                IN  /\ clear.result = "Ok"
                    /\ clear.schedules[id] = [s EXCEPT !.end_timestamp = None]
                    /\ \A t \in Timestamps \ {0} :
                        LET set == ModifyCall(Env, i, id, MArgs(None, None, None, Some(Some(t))))
                        IN  /\ set.result = "Ok" <=> t > s.start_timestamp
                            /\ set.result = "Ok" =>
                                set.schedules[id] = [s EXCEPT !.end_timestamp = Some(t)]
                    /\ \A a \in ModifyArgs :
                        LET r == ModifyCall(Env, i, id, a)
                        IN  r.result = "Ok" =>
                                r.schedules[id].end_timestamp =
                                    IF a.end_timestamp = None THEN s.end_timestamp
                                    ELSE Unwrap(a.end_timestamp)

\* a modified schedule with an end stored: clearing it gives None,
\* a request without the argument keeps it, another value replaces it
C16_Witness ==
    /\ last.op = "modify"
    /\ Stored(last.id)
    /\ LET s == schedules[last.id]
       IN  /\ s.end_timestamp = Some(Day(2))
           /\ s.start_timestamp = 0
           /\ \E i \in OwnerOf(last.id) :
                /\ ModifyCall(Env, i, last.id, MArgs(None, None, None, Some(None)))
                       .schedules[last.id].end_timestamp = None
                /\ ModifyCall(Env, i, last.id, MArgs(Some(5), None, None, None))
                       .schedules[last.id].end_timestamp = Some(Day(2))
                /\ ModifyCall(Env, i, last.id, MArgs(None, None, None, Some(Some(Day(1)))))
                       .schedules[last.id].end_timestamp = Some(Day(1))

----------------------------------------------------------------------------
(* cancel_schedule *)

\* the ids create_schedule returned whose record was removed since
Cancelled ==
    {id \in IdInputs : (\E k \in 1..Len(issued) : issued[k] = id) /\ ~Stored(id)}

\* C17: a successful cancel_schedule removes the record, and for every id
\* whose record was removed: get_schedule returns None, neither
\* get_schedules nor get_ready_schedules returns it, execute, pause, resume,
\* modify and cancel on it fail with "Schedule not found", and no
\* create_schedule call stores a record under it, so it never exists again.
C17_CancelIsFinal ==
    /\ last.op = "cancel" => last.id \in Cancelled
    /\ \A id \in Cancelled :
        /\ get_schedule(Env, id).ret = Some(None)
        /\ \A owner \in Address : ~InVec(Unwrap(get_schedules(Env, owner).ret), id)
        /\ ~InVec(Unwrap(get_ready_schedules(Env).ret), id)
        /\ execute_schedule(Env, id).result = "Schedule not found"
        /\ \A i \in {j \in Invokers : j.signer = j.caller} :
            /\ pause_schedule(Env, i.signer, i.caller, id).result = "Schedule not found"
            /\ resume_schedule(Env, i.signer, i.caller, id).result = "Schedule not found"
            /\ cancel_schedule(Env, i.signer, i.caller, id).result = "Schedule not found"
            /\ \A a \in ModifyArgs :
                ModifyCall(Env, i, id, a).result = "Schedule not found"
        /\ \A c \in CreateInputsMulti : ~MapHas(CreateCall(Env, c).schedules, id)

\* id 1 was cancelled and a later schedule, with id 2, is stored and ready
C17_Witness ==
    /\ Cancelled = {1}
    /\ Stored(2)
    /\ InVec(Unwrap(get_ready_schedules(Env).ret), 2)
    /\ \E c \in CreateInputs : CreateCall(Env, c).result = "Ok"

----------------------------------------------------------------------------
(* authorization of pause, resume, modify and cancel *)

\* the four owner-only calls an invoker can make on an id, with the message
\* each gives when the caller is not the owner
OwnerOnlyCalls(env, i, id) ==
    {[r |-> pause_schedule(env, i.signer, i.caller, id),
      denied |-> "Only the schedule owner can pause it"],
     [r |-> resume_schedule(env, i.signer, i.caller, id),
      denied |-> "Only the schedule owner can resume it"],
     [r |-> cancel_schedule(env, i.signer, i.caller, id),
      denied |-> "Only the schedule owner can cancel it"]}
    \cup {[r |-> ModifyCall(env, i, id, a),
           denied |-> "Only the schedule owner can modify it"] : a \in ModifyArgs}

\* C18: pause, resume, modify and cancel on a stored schedule by anyone but
\* its owner fail as unauthorized (the caller is not the owner, or the
\* caller's address was not authorized by the invoker) and leave the store
\* unchanged; on an id that is not stored they fail with "Schedule not
\* found" for every authenticated caller and leave the store unchanged; and
\* execute_schedule, which anyone may call, leaves amount, frequency,
\* frequency_days and end_timestamp as they are.  So these four fields
\* change only through calls by the owner.
C18_OwnerOnly ==
    \A id \in IdInputs, i \in Invokers :
        /\ (Stored(id) /\ i \notin OwnerOf(id)) =>
            \A c \in OwnerOnlyCalls(Env, i, id) :
                /\ c.r.result = IF i.signer # i.caller THEN "Unauthorized" ELSE c.denied
                /\ StoreOf(c.r) = Store
        /\ ~Stored(id) =>
            \A c \in OwnerOnlyCalls(Env, i, id) :
                /\ i.signer = i.caller => c.r.result = "Schedule not found"
                /\ c.r.result # "Ok"
                /\ StoreOf(c.r) = Store
        /\ Stored(id) =>
            LET x == execute_schedule(Env, id)
            IN  /\ x.schedules[id].amount = schedules[id].amount
                /\ x.schedules[id].frequency = schedules[id].frequency
                /\ x.schedules[id].frequency_days = schedules[id].frequency_days
                /\ x.schedules[id].end_timestamp = schedules[id].end_timestamp

\* alice's schedule, which she has modified: bob is refused as a caller of
\* his own and when he passes alice's address, and an id that is not stored
\* is not found
C18_Witness ==
    /\ last.op = "modify"
    /\ Stored(last.id)
    /\ schedules[last.id].owner = "alice"
    /\ schedules[last.id].amount = 5
    /\ cancel_schedule(Env, "bob", "bob", last.id).result
           = "Only the schedule owner can cancel it"
    /\ ModifyCall(Env, [signer |-> "bob", caller |-> "bob"], last.id,
                  MArgs(Some(5), None, None, None)).result
           = "Only the schedule owner can modify it"
    /\ pause_schedule(Env, "bob", "alice", last.id).result = "Unauthorized"
    /\ \E id \in IdInputs :
        resume_schedule(Env, "bob", "bob", id).result = "Schedule not found"

----------------------------------------------------------------------------
(* get_ready_schedules, get_schedules *)

\* the elements of a returned vector
Elems(vec) == {vec[k] : k \in 1..Len(vec)}

\* C19: get_ready_schedules returns exactly the stored schedules that are
\* active, have next_execution <= now and have no end_timestamp or an
\* end_timestamp >= now: a due active schedule with end_timestamp = now is
\* returned, one with end_timestamp < now is not; the call leaves the store
\* as it is, also the active flag of schedules past their end.
C19_ReadyExactly ==
    LET r == get_ready_schedules(Env)
        vec == Unwrap(r.ret)
    IN  /\ Elems(vec) =
              {schedules[id] : id \in
                  {j \in DOMAIN schedules :
                      /\ schedules[j].active
                      /\ schedules[j].next_execution <= now
                      /\ \/ schedules[j].end_timestamp = None
                         \/ Unwrap(schedules[j].end_timestamp) >= now}}
        /\ StoreOf(r) = Store
        /\ \A id \in DOMAIN schedules :
            LET s == schedules[id]
            IN  (s.active /\ s.next_execution <= now /\ IsSome(s.end_timestamp)) =>
                    /\ Unwrap(s.end_timestamp) = now => InVec(vec, id)
                    /\ Unwrap(s.end_timestamp) < now =>
                        ~InVec(vec, id) /\ r.schedules[id].active

\* an active schedule that was executed before, is due again and whose
\* end_timestamp is the current ledger time: it is returned
C19_Witness ==
    \E id \in IdInputs :
        /\ Stored(id)
        /\ schedules[id].active
        /\ IsSome(schedules[id].last_executed)
        /\ schedules[id].next_execution <= now
        /\ schedules[id].end_timestamp = Some(now)
        /\ Unwrap(get_ready_schedules(Env).ret) = <<schedules[id]>>

\* the ids of a returned vector are strictly ascending
Ascending(vec) == \A j, k \in 1..Len(vec) : j < k => vec[j].id < vec[k].id

\* C20: get_schedules(owner) returns exactly the stored schedules of that
\* owner, and get_schedules and get_ready_schedules return their schedules
\* in strictly ascending order of id, each one once, whatever was created,
\* executed, paused or cancelled before; neither writes the store.
C20_ViewsByAscendingId ==
    /\ \A owner \in Address :
        LET r == get_schedules(Env, owner)
            vec == Unwrap(r.ret)
        IN  /\ Elems(vec) =
                  {schedules[id] : id \in {j \in DOMAIN schedules :
                                              schedules[j].owner = owner}}
            /\ Ascending(vec)
            /\ Len(vec) = Cardinality(Elems(vec))
            /\ StoreOf(r) = Store
    /\ LET vec == Unwrap(get_ready_schedules(Env).ret)
       IN  /\ Elems(vec) =
                 {schedules[id] : id \in {j \in DOMAIN schedules :
                                             IsReady(schedules[j], now)}}
           /\ Ascending(vec)
           /\ Len(vec) = Cardinality(Elems(vec))

\* ids 1 and 2 are stored, in one owner's hands, both ready, and the second
\* one was executed before the first
C20_Witness ==
    /\ DOMAIN schedules = {1, 2}
    /\ schedules[1].owner = schedules[2].owner
    /\ IdsOf(Unwrap(get_schedules(Env, schedules[1].owner).ret)) = <<1, 2>>
    /\ IdsOf(Unwrap(get_ready_schedules(Env).ret)) = <<1, 2>>
    /\ IsSome(schedules[2].last_executed)
    /\ ~IsSome(schedules[1].last_executed)

----------------------------------------------------------------------------
(* what holds of every stored schedule *)

\* C21: in every reachable state every stored schedule has amount > 0.
C21_AmountPositive ==
    \A id \in DOMAIN schedules : schedules[id].amount > 0

\* an executed schedule whose amount its owner has changed, and for which a
\* request for an amount of 0 is refused
C21_Witness ==
    /\ last.op = "modify"
    /\ Stored(last.id)
    /\ schedules[last.id].amount = 5
    /\ IsSome(schedules[last.id].last_executed)
    /\ \E i \in OwnerOf(last.id) :
        ModifyCall(Env, i, last.id, MArgs(Some(0), None, None, None)).result
            = "Amount must be positive"

\* C22 as stated: in every reachable state every stored schedule with
\* frequency = Custom has frequency_days > 0.
C22_Original ==
    \A id \in DOMAIN schedules :
        schedules[id].frequency = "Custom" => schedules[id].frequency_days > 0

\* C23: in every reachable state every stored schedule with an end_timestamp
\* has end_timestamp > start_timestamp.
C23_EndAfterStart ==
    \A id \in DOMAIN schedules :
        IsSome(schedules[id].end_timestamp) =>
            Unwrap(schedules[id].end_timestamp) > schedules[id].start_timestamp

\* a modified schedule starting on day 1 with its end on day 2, for which a
\* request for an end on day 1 is refused
C23_Witness ==
    /\ last.op = "modify"
    /\ Stored(last.id)
    /\ schedules[last.id].start_timestamp = Day(1)
    /\ schedules[last.id].end_timestamp = Some(Day(2))
    /\ \E i \in OwnerOf(last.id) :
        ModifyCall(Env, i, last.id, MArgs(None, None, None, Some(Some(Day(1))))).result
            = "End timestamp must be after start timestamp"

----------------------------------------------------------------------------
(* what the calls change *)

\* create_schedule calls for a schedule starting at the current ledger time,
\* without an end, by either signer
CreateNow == [signer : Address, payload : CreatePayloads, frequency : ScheduleFrequency, frequency_days : FrequencyDaysInputs, start_timestamp : {now}, end_timestamp : {None}]

\* the modify_schedule requests examined on an id: every request on a stored
\* schedule, the requests about the amount on an id that is not stored
ModifyArgsOn(id) ==
    IF MapHas(schedules, id) THEN ModifyArgs
    ELSE {a \in ModifyArgs : a.frequency = None /\ a.frequency_days = None
                                /\ a.end_timestamp = None}

\* The calls that can be made in the current state, each with what it hands
\* back: execute_schedule on every id, pause, resume and cancel by every
\* invoker on every id, modify_schedule by every invoker on every id with
\* the requests of ModifyArgsOn, and the create_schedule calls of CreateNow.
Calls ==
    {[op |-> "execute", id |-> id, r |-> execute_schedule(Env, id)] : id \in IdInputs}
    \cup {[op |-> "pause", id |-> id, r |-> pause_schedule(Env, i.signer, i.caller, id)] :
             i \in Invokers, id \in IdInputs}
    \cup {[op |-> "resume", id |-> id, r |-> resume_schedule(Env, i.signer, i.caller, id)] :
             i \in Invokers, id \in IdInputs}
    \cup {[op |-> "cancel", id |-> id, r |-> cancel_schedule(Env, i.signer, i.caller, id)] :
             i \in Invokers, id \in IdInputs}
    \cup UNION {{[op |-> "modify", id |-> id, r |-> ModifyCall(Env, i, id, a)] :
                    i \in Invokers, a \in ModifyArgsOn(id)} : id \in IdInputs}
    \cup {[op |-> "create", id |-> 0, r |-> CreateCall(Env, c)] : c \in CreateNow}

\* C24: next_execution of a stored schedule changes only in a successful
\* execution of that schedule: pause, resume, modify with any request, an
\* execution that ends in expiry, every failed call and every call on
\* another id leave it as it is.
C24_NextExecutionOnlyByExecute ==
    \A id \in DOMAIN schedules, c \in Calls :
        (MapHas(c.r.schedules, id)
            /\ c.r.schedules[id].next_execution # schedules[id].next_execution) =>
                /\ c.op = "execute" /\ c.id = id
                /\ c.r.result = "Ok" /\ c.r.ret = Some(TRUE)

\* a schedule executed as a Weekly one and then changed to Custom by its
\* owner: next_execution is still the one the execution computed
C24_Witness ==
    /\ last.op = "modify"
    /\ Stored(last.id)
    /\ LET s == schedules[last.id]
       IN  /\ s.frequency = "Custom"
           /\ IsSome(s.last_executed)
           /\ s.next_execution = Unwrap(s.last_executed) + 7 * SECONDS_PER_DAY

\* C25: created_at, id, owner and start_timestamp of a stored schedule are
\* changed by no call: as long as the record exists they are the values
\* create_schedule stored, and the id is the key of the record.
C25_CreationFieldsFixed ==
    \A id \in DOMAIN schedules :
        /\ schedules[id].id = id
        /\ \A c \in Calls :
            MapHas(c.r.schedules, id) =>
                /\ c.r.schedules[id].created_at = schedules[id].created_at
                /\ c.r.schedules[id].id = schedules[id].id
                /\ c.r.schedules[id].owner = schedules[id].owner
                /\ c.r.schedules[id].start_timestamp = schedules[id].start_timestamp

\* a schedule created on day 0 to start on day 1, since executed late,
\* modified and resumed: the four fields are those of its creation
C25_Witness ==
    /\ last.op = "resume"
    /\ Stored(last.id)
    /\ LET s == schedules[last.id]
       IN  /\ s.created_at = 0 /\ s.start_timestamp = Day(1)
           /\ s.last_executed = Some(Day(2))
           /\ s.amount = 5
           /\ s.owner = "alice" /\ s.id = last.id

\* a Weekly schedule of either owner, starting now, without an end
CreateGood ==
    {c \in CreateNow :
        /\ c.signer = c.payload.owner /\ c.payload.amount > 0
        /\ c.frequency = "Weekly" /\ c.frequency_days = 0}

C27_PassiveEngine ==
    [][/\ now' # now => (schedules' = schedules /\ next_id' = next_id)
       /\ \A id \in DOMAIN schedules :
            (/\ schedules[id].active
             /\ PastEnd(schedules[id], now)
             /\ MapHas(schedules', id)
             /\ ~schedules'[id].active) =>
                (last'.op \in {"execute", "pause"} /\ last'.id = id)]_vars

\* the clock has just moved, and a stored schedule whose end_timestamp has
\* passed is still active
C27_Witness ==
    /\ last.op = "tick"
    /\ \E id \in DOMAIN schedules :
        /\ schedules[id].active
        /\ PastEnd(schedules[id], now)

----------------------------------------------------------------------------
(* validate_schedule against create_schedule *)

\* the create_schedule requests authorized by the owner they name
CreateByOwner == {c \in CreateInputs : c.signer = c.payload.owner}

\* C28: validate_schedule writes nothing, and it returns true exactly when
\* create_schedule with the same amount, frequency, frequency_days, start and
\* end, authorized by the owner and made at the same clock value, returns an
\* id.  Examined with every request where no schedule is stored, at every
\* clock value, and with the requests starting now where one is stored.
C28_ValidateIsDryRun ==
    \A c \in (IF DOMAIN schedules = {} THEN CreateByOwner
              ELSE {n \in CreateNow : n.signer = n.payload.owner}) :
        LET v == ValidateCall(Env, c)
        IN  /\ v.result = "Ok"
            /\ StoreOf(v) = Store
            /\ v.ret = Some(CreateCall(Env, c).result = "Ok")

\* the clock has moved past 0 and no schedule is stored: of the requests
\* validate_schedule accepts some and refuses some, among them one that
\* starts exactly now (accepted) and one that starts before now (refused)
C28_Witness ==
    /\ now > 0
    /\ DOMAIN schedules = {}
    /\ \E c \in CreateByOwner :
        /\ c.start_timestamp = now
        /\ ValidateCall(Env, c).ret = Some(TRUE)
        /\ CreateCall(Env, c).result = "Ok"
    /\ \E c \in CreateByOwner :
        /\ c.payload.amount > 0
        /\ c.start_timestamp < now
        /\ ValidateCall(Env, c).ret = Some(FALSE)
        /\ CreateCall(Env, c).result = "Start timestamp must be in the future"

----------------------------------------------------------------------------
(* The rate limiter: the limit and the whitelist *)

\* the storage an invocation of the rate limiter leaves, as the next one
\* finds it at the time t
EnvOfRL(r, t) ==
    [configs |-> r.configs, whitelist |-> r.whitelist, trackers |-> r.trackers,
     timestamp |-> t]

StoreOfRL(r) == <<r.configs, r.whitelist, r.trackers>>

\* the calls recorded for (caller, function_name) in the window that
\* contains the time of env: those of its tracker, none once the window
\* of the tracker is over
Recorded(env, caller, function_name) ==
    LET key == <<caller, function_name>>
        config == env.configs[function_name]
    IN  IF ~MapHas(env.trackers, key) THEN 0
        ELSE IF env.timestamp >= env.trackers[key].window_start
                    + WindowSeconds(config.time_window, config.window_seconds)
            THEN 0
        ELSE env.trackers[key].calls

\* k check_rate_limit calls by the same caller for the same function, one
\* after the other at the same ledger time: the storage they leave and how
\* many of them returned
RECURSIVE CheckRun(_, _, _, _)
CheckRun(env, caller, function_name, k) ==
    IF k = 0 THEN [env |-> env, granted |-> 0]
    ELSE
        LET r == check_rate_limit(env, caller, function_name)
            rest == CheckRun(EnvOfRL(r, env.timestamp), caller, function_name, k - 1)
        IN  [env |-> rest.env,
             granted |-> rest.granted + (IF r.result = "Ok" THEN 1 ELSE 0)]

\* what is left of n calls once used of them are taken
Remaining(n, used) == IF used >= n THEN 0 ELSE n - used

\* C29: for a function configured with max_calls = N and a caller that is
\* not on the whitelist, check_rate_limit returns true exactly while fewer
\* than N calls are recorded for the pair in the current window, and each
\* such call is recorded as one more call of that pair and of no other pair;
\* otherwise it panics with "Rate limit exceeded for function" and the
\* storage is as before.  So of N + 1 calls in a row exactly those that the
\* window has left are granted: never more than N in one window.
C29_LimitPerWindow ==
    \A caller \in Address, function_name \in DOMAIN configs :
        ~OnWhitelist(whitelist, caller) =>
            LET key == <<caller, function_name>>
                N == configs[function_name].max_calls
                used == Recorded(EnvRL, caller, function_name)
                r == check_rate_limit(EnvRL, caller, function_name)
            IN  /\ r.result = (IF used < N THEN "Ok" ELSE "Rate limit exceeded for function")
                /\ r.result = "Ok" =>
                    /\ r.ret = Some(TRUE)
                    /\ r.configs = configs /\ r.whitelist = whitelist
                    /\ DOMAIN r.trackers = DOMAIN trackers \cup {key}
                    /\ r.trackers[key].calls = used + 1
                    /\ \A other \in DOMAIN trackers \ {key} :
                        r.trackers[other] = trackers[other]
                /\ r.result # "Ok" => StoreOfRL(r) = limiter
                /\ CheckRun(EnvRL, caller, function_name, N + 1).granted
                       = Remaining(N, used)

\* a caller that is not on the whitelist has just been granted the last
\* call its window has, in a window that began at an earlier ledger time,
\* while the same function has calls left for the other address
C29_Witness ==
    /\ last.op = "check_rate_limit"
    /\ LET caller == last.id[1]
           function_name == last.id[2]
       IN  /\ ~OnWhitelist(whitelist, caller)
           /\ MapHas(configs, function_name)
           /\ configs[function_name].max_calls > 1
           /\ Recorded(EnvRL, caller, function_name) = configs[function_name].max_calls
           /\ trackers[last.id].window_start < now
           /\ check_rate_limit(EnvRL, caller, function_name).result
                  = "Rate limit exceeded for function"
           /\ \E other \in Address \ {caller} :
               /\ ~OnWhitelist(whitelist, other)
               /\ MapHas(trackers, <<other, function_name>>)
               /\ Recorded(EnvRL, other, function_name) = 1
               /\ check_rate_limit(EnvRL, other, function_name).result = "Ok"

\* C30: while an address is on the whitelist, check_rate_limit by it for a
\* configured function returns true and leaves the storage, its recorded
\* calls included, as it was, however many calls it makes; once
\* remove_from_whitelist has taken it off, its calls are limited again, with
\* the calls its tracker had recorded.
C30_WhitelistBypasses ==
    \A address \in Address, function_name \in DOMAIN configs :
        OnWhitelist(whitelist, address) =>
            LET r == check_rate_limit(EnvRL, address, function_name)
                run == CheckRun(EnvRL, address, function_name, MaxCalls + 2)
            IN  /\ r.result = "Ok" /\ r.ret = Some(TRUE)
                /\ StoreOfRL(r) = limiter
                /\ run.granted = MaxCalls + 2
                /\ run.env = EnvRL
                /\ \A admin \in Address :
                    LET off == remove_from_whitelist(EnvRL, admin, admin, address)
                        env == EnvOfRL(off, now)
                        N == configs[function_name].max_calls
                    IN  /\ off.result = "Ok"
                        /\ ~OnWhitelist(env.whitelist, address)
                        /\ env.trackers = trackers /\ env.configs = configs
                        /\ CheckRun(env, address, function_name, N + 1).granted
                               = Remaining(N, Recorded(env, address, function_name))

\* an address that had used up its calls and was then put on the whitelist
\* has just been granted one more call in the same window
C30_Witness ==
    /\ last.op = "check_rate_limit"
    /\ LET address == last.id[1]
           function_name == last.id[2]
       IN  /\ OnWhitelist(whitelist, address)
           /\ MapHas(configs, function_name)
           /\ Recorded(EnvRL, address, function_name) = configs[function_name].max_calls

\* C31 as stated: for a configured function and a caller that is not on the
\* whitelist, get_rate_limit_status reports calls_remaining = max_calls while
\* no call of the caller is recorded, and is_limited exactly when
\* check_rate_limit by the same caller for the same function at the same
\* ledger time panics with "Rate limit exceeded for function".
C31_Original ==
    \A caller \in Address, function_name \in DOMAIN configs :
        ~OnWhitelist(whitelist, caller) =>
            LET status == Unwrap(get_rate_limit_status(EnvRL, caller, function_name).ret)
                r == check_rate_limit(EnvRL, caller, function_name)
            IN  /\ ~MapHas(trackers, <<caller, function_name>>) =>
                        status.calls_remaining = configs[function_name].max_calls
                /\ status.is_limited
                        <=> r.result = "Rate limit exceeded for function"

----------------------------------------------------------------------------
(* execute_schedule: the order of its checks, and the views *)

\* C32: execute_schedule decides in the order not found, not active, not
\* due, expiry, execution.  An id that is not stored panics with "Schedule
\* not found"; an inactive schedule panics with "Schedule is not active",
\* also when it is not due or past its end; an active schedule with
\* now < next_execution panics with "Schedule not ready for execution", also
\* when now > end_timestamp, and stays active; only an active, due schedule
\* with now > end_timestamp is deactivated, and false is returned.
C32_ExecuteCheckOrder ==
    \A id \in IdInputs :
        LET r == execute_schedule(Env, id)
        IN  IF ~Stored(id)
                THEN r.result = "Schedule not found" /\ StoreOf(r) = Store
            ELSE IF ~schedules[id].active
                THEN r.result = "Schedule is not active" /\ StoreOf(r) = Store
            ELSE IF now < schedules[id].next_execution
                THEN /\ r.result = "Schedule not ready for execution"
                     /\ StoreOf(r) = Store
            ELSE IF IsSome(schedules[id].end_timestamp)
                        /\ now > Unwrap(schedules[id].end_timestamp)
                THEN /\ r.result = "Ok" /\ r.ret = Some(FALSE)
                     /\ r.schedules = MapSet(schedules, id,
                                             [schedules[id] EXCEPT !.active = FALSE])
            ELSE /\ r.result = "Ok" /\ r.ret = Some(TRUE)
                 /\ r.schedules[id].active

\* an active schedule that is past its end_timestamp and not yet due again:
\* execute_schedule refuses it as not ready and leaves it active
C32_Witness ==
    \E id \in DOMAIN schedules :
        /\ schedules[id].active
        /\ IsSome(schedules[id].last_executed)
        /\ now < schedules[id].next_execution
        /\ PastEnd(schedules[id], now)
        /\ execute_schedule(Env, id).result = "Schedule not ready for execution"

C34_ReadyIffExecutes ==
    LET vec == Unwrap(get_ready_schedules(Env).ret)
    IN  \A id \in IdInputs :
            LET r == execute_schedule(Env, id)
            IN  InVec(vec, id) <=> (r.result = "Ok" /\ r.ret = Some(TRUE))

\* an executed schedule is due again at the very time of its end_timestamp:
\* it is listed and execute_schedule would execute it
C34_Witness ==
    \E id \in DOMAIN schedules :
        /\ IsSome(schedules[id].last_executed)
        /\ schedules[id].end_timestamp = Some(now)
        /\ schedules[id].next_execution <= now
        /\ InVec(Unwrap(get_ready_schedules(Env).ret), id)
        /\ execute_schedule(Env, id).ret = Some(TRUE)

----------------------------------------------------------------------------
(* executions and the end, the order of the timestamps *)

\* last_executed of a schedule is not after its end_timestamp
ExecutedByEnd(schedule) ==
    \/ schedule.end_timestamp = None
    \/ schedule.last_executed = None
    \/ Unwrap(schedule.last_executed) <= Unwrap(schedule.end_timestamp)

\* C35: execute_schedule never returns true at a time after the
\* end_timestamp the schedule has when it is called; a new record has no
\* last_executed; and every step that leaves the end_timestamp of a stored
\* schedule as it is keeps last_executed <= end_timestamp.  So a schedule
\* whose end_timestamp is never modified has last_executed <= end_timestamp
\* in every reachable state, also after it expired and was resumed.
C35_NoExecutionAfterEnd ==
    [][/\ \A id \in DOMAIN schedules :
            execute_schedule(Env, id).ret = Some(TRUE) => ~PastEnd(schedules[id], now)
       /\ \A id \in DOMAIN schedules' :
            IF id \in DOMAIN schedules
            THEN (/\ schedules'[id].end_timestamp = schedules[id].end_timestamp
                  /\ ExecutedByEnd(schedules[id])) => ExecutedByEnd(schedules'[id])
            ELSE schedules'[id].last_executed = None]_vars

\* a schedule that was executed, expired and was resumed by its owner: it is
\* active after its end_timestamp, and an execute_schedule call now expires
\* it again
C35_Witness ==
    /\ last.op = "resume"
    /\ Stored(last.id)
    /\ schedules[last.id].active
    /\ IsSome(schedules[last.id].last_executed)
    /\ PastEnd(schedules[last.id], now)
    /\ now >= schedules[last.id].next_execution
    /\ execute_schedule(Env, last.id).ret = Some(FALSE)

\* created_at <= start_timestamp <= next_execution; without a last_executed
\* next_execution is start_timestamp; with one it lies between
\* start_timestamp and next_execution
TimestampsOrdered(schedule) ==
    /\ schedule.created_at <= schedule.start_timestamp
    /\ schedule.start_timestamp <= schedule.next_execution
    /\ IF schedule.last_executed = None
       THEN schedule.next_execution = schedule.start_timestamp
       ELSE /\ schedule.start_timestamp <= Unwrap(schedule.last_executed)
            /\ Unwrap(schedule.last_executed) <= schedule.next_execution

\* C36: in every reachable state every stored schedule has
\* created_at <= start_timestamp <= next_execution, next_execution =
\* start_timestamp while it has no last_executed, and start_timestamp <=
\* last_executed <= next_execution once it has one; and in no step does
\* next_execution of a stored schedule decrease, or its last_executed
\* decrease or get lost.  The clock of the model never goes back.
C36_TimestampOrder ==
    /\ [](\A id \in DOMAIN schedules : TimestampsOrdered(schedules[id]))
    /\ [][/\ now' >= now
          /\ \A id \in DOMAIN schedules \cap DOMAIN schedules' :
               /\ schedules'[id].next_execution >= schedules[id].next_execution
               /\ IsSome(schedules[id].last_executed) =>
                    /\ IsSome(schedules'[id].last_executed)
                    /\ Unwrap(schedules'[id].last_executed)
                           >= Unwrap(schedules[id].last_executed)]_vars

\* a schedule created before its start and executed a second time, later
\* than the first: all the inequalities are strict
C36_Witness ==
    /\ last.op = "execute"
    /\ last.ret = Some(TRUE)
    /\ Stored(last.id)
    /\ LET s == schedules[last.id]
       IN  /\ s.created_at < s.start_timestamp
           /\ s.start_timestamp < Unwrap(s.last_executed)
           /\ Unwrap(s.last_executed) < s.next_execution
           /\ Unwrap(s.last_executed) = now

\* C37: the gap between two executions.  A step that changes a stored
\* schedule by an execute_schedule call that returns true is made at a time
\* now no sooner than next_execution; it sets last_executed to now and
\* next_execution to now plus the one period the schedule has at that
\* moment, however many periods have passed.  Every other step on a schedule
\* that stays stored (pause, resume, modify, an expiry) leaves last_executed
\* and next_execution as the last execution set them.  So from an execution
\* at t1 with period P the due time t1 + P is kept until the next execution,
\* which is at t2 >= t1 + P.
C37_OneExecutionPerPeriod ==
    [][\A id \in DOMAIN schedules \cap DOMAIN schedules' :
        IF /\ schedules'[id] # schedules[id]
           /\ last'.op = "execute" /\ last'.id = id /\ last'.ret = Some(TRUE)
        THEN /\ now >= schedules[id].next_execution
             /\ IsSome(schedules[id].last_executed) =>
                    now >= Unwrap(schedules[id].last_executed)
             /\ schedules'[id].last_executed = Some(now)
             /\ schedules'[id].next_execution = now + C6_Period(schedules[id])
        ELSE /\ schedules'[id].next_execution = schedules[id].next_execution
             /\ schedules'[id].last_executed = schedules[id].last_executed]_vars

\* a schedule executed with a period of one day and changed to two days
\* since: one day after that execution it is due, and execute_schedule
\* executes it
C37_Witness ==
    \E id \in DOMAIN schedules :
        LET s == schedules[id]
        IN  /\ s.frequency = "Custom" /\ s.frequency_days = 2
            /\ IsSome(s.last_executed)
            /\ s.next_execution = Unwrap(s.last_executed) + SECONDS_PER_DAY
            /\ now = s.next_execution
            /\ execute_schedule(Env, id).ret = Some(TRUE)

----------------------------------------------------------------------------
(* calls on different ids *)

\* the modify_schedule requests taken here: a new amount with a new end, and
\* a new frequency with its days
ModifyProbe ==
    {MArgs(Some(5), None, None, Some(Some(Day(1)))),
     MArgs(None, Some("Custom"), Some(2), None)}

\* the invoker taken for the pairs of calls on an id: the owner of the
\* schedule acting for itself, alice where no schedule is stored
Actor(id) ==
    IF MapHas(schedules, id)
    THEN [signer |-> schedules[id].owner, caller |-> schedules[id].owner]
    ELSE [signer |-> "alice", caller |-> "alice"]

\* execute, pause, resume, cancel and modify calls on one id
IdCalls(id) ==
    [op : {"execute", "pause", "resume", "cancel"}, id : {id}, by : {Actor(id)},
     args : {MArgs(None, None, None, None)}]
    \cup [op : {"modify"}, id : {id}, by : {Actor(id)}, args : ModifyProbe]

\* what the call c hands back when it is made on env
CallOn(env, c) ==
    CASE c.op = "execute" -> execute_schedule(env, c.id)
      [] c.op = "pause"   -> pause_schedule(env, c.by.signer, c.by.caller, c.id)
      [] c.op = "resume"  -> resume_schedule(env, c.by.signer, c.by.caller, c.id)
      [] c.op = "cancel"  -> cancel_schedule(env, c.by.signer, c.by.caller, c.id)
      [] c.op = "modify"  -> ModifyCall(env, c.by, c.id, c.args)

\* the calls of IdCalls(id), each with what it hands back in the current state
IdResults(id) == {[c |-> c, r |-> CallOn(Env, c)] : c \in IdCalls(id)}

\* the invocation of a call on id left NEXT_ID and every other record alone
OthersKept(r, id) ==
    /\ r.next_id = next_id
    /\ DOMAIN r.schedules \ {id} = DOMAIN schedules \ {id}
    /\ \A j \in DOMAIN schedules \ {id} : r.schedules[j] = schedules[j]

\* C38: calls are isolated per id.  An execute, pause, resume, modify or
\* cancel call on the id i, by any invoker, leaves NEXT_ID and every record
\* with another id as they are (none appears, none goes); a create_schedule
\* call that returns leaves every stored record as it is and adds the one it
\* returns; and two calls of the five kinds on different ids, made by the
\* owners one after the other at the same ledger time, leave the same store
\* and return the same results in either order.
C38_IsolatedPerId ==
    /\ \A id \in IdInputs :
        /\ OthersKept(execute_schedule(Env, id), id)
        /\ \A by \in Invokers :
            /\ OthersKept(pause_schedule(Env, by.signer, by.caller, id), id)
            /\ OthersKept(resume_schedule(Env, by.signer, by.caller, id), id)
            /\ OthersKept(cancel_schedule(Env, by.signer, by.caller, id), id)
            /\ \A a \in ModifyProbe : OthersKept(ModifyCall(Env, by, id, a), id)
    /\ \A c \in {n \in CreateNow : n.signer = n.payload.owner /\ n.frequency_days = 1} :
        \A r \in {CreateCall(Env, c)} :
            r.result = "Ok" =>
                /\ Unwrap(r.ret) \notin DOMAIN schedules
                /\ DOMAIN r.schedules = DOMAIN schedules \cup {Unwrap(r.ret)}
                /\ \A j \in DOMAIN schedules : r.schedules[j] = schedules[j]
    /\ \A i \in IdInputs, j \in IdInputs :
        i < j =>
            \A x \in IdResults(i), y \in IdResults(j) :
                \A second \in {CallOn(EnvOf(x.r, now), y.c)} :
                    /\ CallOn(EnvOf(y.r, now), x.c)
                        = [schedules |-> second.schedules, next_id |-> second.next_id,
                           result |-> x.r.result, ret |-> x.r.ret]
                    /\ second.result = y.r.result /\ second.ret = y.r.ret

\* two schedules of one owner are stored, one executed and active, the other
\* paused: an execution of the first and a resume of the second both return
C38_Witness ==
    \E i \in DOMAIN schedules, j \in DOMAIN schedules :
        /\ i # j
        /\ schedules[i].owner = schedules[j].owner
        /\ IsSome(schedules[i].last_executed)
        /\ ~schedules[j].active
        /\ execute_schedule(Env, i).ret = Some(TRUE)
        /\ \E by \in OwnerOf(j) : resume_schedule(Env, by.signer, by.caller, j).result = "Ok"

(* pausing twice, resuming twice *)

\* C39: pause_schedule and resume_schedule are idempotent on the store.  For
\* every stored schedule and its owner: a pause of an inactive schedule
\* (paused, or deactivated by an execution past end_timestamp) returns true
\* and leaves the store as it is; a resume of an active schedule returns true
\* and leaves the store as it is; a second pause right after a pause, and a
\* second resume right after a resume, return true and leave what the first
\* left.
C39_PauseResumeIdempotent ==
    \A id \in DOMAIN schedules :
        \A by \in OwnerOf(id) :
            \A p \in {pause_schedule(Env, by.signer, by.caller, id)},
               r \in {resume_schedule(Env, by.signer, by.caller, id)} :
                /\ p.result = "Ok" /\ p.ret = Some(TRUE)
                /\ r.result = "Ok" /\ r.ret = Some(TRUE)
                /\ ~schedules[id].active =>
                        p.schedules = schedules /\ p.next_id = next_id
                /\ schedules[id].active =>
                        r.schedules = schedules /\ r.next_id = next_id
                /\ pause_schedule(EnvOf(p, now), by.signer, by.caller, id) = p
                /\ resume_schedule(EnvOf(r, now), by.signer, by.caller, id) = r

\* the schedule was deactivated past its end and then paused by the owner,
\* who can pause it again
C39_Witness ==
    \E id \in DOMAIN schedules :
        /\ ~schedules[id].active
        /\ PastEnd(schedules[id], now)
        /\ last.op = "pause" /\ last.id = id /\ last.ret = Some(TRUE)
        /\ \E by \in OwnerOf(id) :
                pause_schedule(Env, by.signer, by.caller, id).result = "Ok"

----------------------------------------------------------------------------
(* SpecLive: schedules left to the poller.  Owners create schedules and    *)
(* make no other call; the poller calls execute_schedule and               *)
(* get_ready_schedules; the ledger clock has no bound of its own, and is   *)
(* followed up to Day(MaxDay) and on for as long as a stored active        *)
(* schedule with an end has its end or its next_execution ahead.           *)

LiveIds == 1..MaxLive

\* the create_schedule calls of SpecLive: alice's, signed by her, Weekly, or
\* Custom with 1 day
CreateLiveInputs ==
    {c \in [signer : {"alice"},
            payload : {[owner |-> "alice", amount |-> 1, split_config_id |-> Some(7)]},
            frequency : {"Weekly", "Custom"}, frequency_days : FrequencyDaysInputs,
            start_timestamp : StartInputs, end_timestamp : EndInputs] :
        c.frequency = "Custom" <=> c.frequency_days = 1}

CreateLive ==
    /\ next_id < MaxLive
    /\ \E c \in CreateLiveInputs :
        LET r == CreateCall(Env, c)
        IN Commit("create", IF r.result = "Ok" THEN Unwrap(r.ret) ELSE 0, r)

\* the poller's execute_schedule call on one id
ExecuteOn(id) == Commit("execute", id, execute_schedule(Env, id))

PollerExecutes == \E id \in LiveIds : ExecuteOn(id)

\* an active schedule with an end has its end or its next_execution ahead
ClockPending ==
    \E id \in DOMAIN schedules :
        /\ schedules[id].active
        /\ IsSome(schedules[id].end_timestamp)
        /\ \/ now < schedules[id].next_execution
           \/ now <= Unwrap(schedules[id].end_timestamp)

TickLive ==
    /\ now < Day(MaxDay) \/ ClockPending
    /\ now' = now + SECONDS_PER_DAY
    /\ last' = [op |-> "tick", id |-> 0, ret |-> None]
    /\ UNCHANGED <<schedules, next_id, issued, limiter>>

NextLive ==
    \/ CreateLive
    \/ PollerExecutes
    \/ GetReadySchedules
    \/ TickLive

\* the ledger keeps closing, and the poller keeps calling execute_schedule on
\* every id
SpecLive ==
    /\ Init
    /\ [][NextLive]_vars
    /\ WF_vars(TickLive)
    /\ \A id \in LiveIds : WF_vars(ExecuteOn(id))

\* a step in which execute_schedule on id returned true
ExecutionOf(id) ==
    /\ schedules' # schedules
    /\ last'.op = "execute" /\ last'.id = id /\ last'.ret = Some(TRUE)

\* id is not stored, or has no end, or is inactive
SettledOrOpen(id) ==
    MapHas(schedules, id) /\ IsSome(schedules[id].end_timestamp)
        => ~schedules[id].active

\* C40: liveness under polling.  With the ledger clock moving on and the
\* poller calling execute_schedule on every id again and again, and no pause,
\* resume, modify or cancel call, every schedule with an end_timestamp is
\* inactive from some moment on and for ever, and from some moment on no
\* execution of it returns true.
C40_EventuallyInactive ==
    \A id \in LiveIds :
        /\ <>[]SettledOrOpen(id)
        /\ <>[][~ExecutionOf(id)]_vars

\* a schedule with an end was executed, and later deactivated by the poller
\* past its end
C40_Witness ==
    \E id \in DOMAIN schedules :
        /\ IsSome(schedules[id].end_timestamp)
        /\ IsSome(schedules[id].last_executed)
        /\ ~schedules[id].active
        /\ PastEnd(schedules[id], now)
        /\ last.op = "execute" /\ last.id = id /\ last.ret = Some(FALSE)

====
